---- MODULE Spec2Model ----
(***************************************************************************)
(* Ticket triage of the IT-support backend.                                *)
(*                                                                         *)
(*   services/ticket_triage.py  TicketTriageService  (names prefixed TT_)  *)
(*   services/auto_triage.py    AutoTriageService    (names prefixed AT_)  *)
(*   services/simple_ml_service.py  SimpleMLService   (SM_)                *)
(*   services/mfa_service.py    MFAService           (MFA_)                *)
(*   services/alerting.py       AlertManager         (AM_)                 *)
(*   services/realtime_monitor.py  RealtimeMonitor   (RM_)                 *)
(*   main_dynamic.py            ConnectionManager    (CM_), create_ticket  *)
(*   api/routes/tickets.py      the ticket routes                          *)
(*                                                                         *)
(* A text is the sequence of its characters (Chars turns a literal into    *)
(* one); Python's "kw in content" is substring containment (Contains) and  *)
(* str.lower() is Lower.  Confidence scores are kept in hundredths (0.5    *)
(* is 50), times in whole hours.                                           *)
(***************************************************************************)
EXTENDS Integers, Sequences, FiniteSets, TLC

VARIABLES
    tt_priority_keywords,   \* TicketTriageService.priority_keywords
    tt_category_keywords,   \* TicketTriageService.category_keywords (insertion-ordered)
    tt_seen,                \* results returned so far for each probe input
    at_priority_keywords,   \* AutoTriageService.priority_keywords
    at_category_keywords,   \* AutoTriageService.category_keywords (insertion-ordered)
    at_sla_times,           \* AutoTriageService.sla_times
    now,                    \* datetime.now(), in hours
    users,                  \* db.user rows
    tickets,                \* db.ticket rows
    slaevents,              \* db.slaevent rows
    alerts,                 \* db.alert rows
    rt_tickets,             \* the tickets table of api/routes/tickets.py
    pending,                \* create_ticket requests between triage and db.ticket.create
    mfa_codes,              \* MFAService.verification_codes
    mfa_now,                \* time.time(), in seconds
    mfa_sent,               \* the code last sent to each user and the wrong codes submitted since
    am_alerts,              \* the alerts table of AlertManager
    rm_monitoring,          \* RealtimeMonitor.monitoring
    rm_monitor_task,        \* RealtimeMonitor.monitor_task (0: None)
    rm_tasks,               \* the tasks created for _monitor_loop
    rm_stops,               \* stop_monitoring calls waiting for a task
    cm_active,              \* ConnectionManager.active_connections
    call                    \* the last call made: operation, arguments, outcome

vars == <<tt_priority_keywords, tt_category_keywords, tt_seen,
          at_priority_keywords, at_category_keywords, at_sla_times,
          now, users, tickets, slaevents, alerts, rt_tickets,
          pending, mfa_codes, mfa_now, mfa_sent, am_alerts,
          rm_monitoring, rm_monitor_task, rm_tasks, rm_stops, cm_active, call>>

tt_vars == <<tt_priority_keywords, tt_category_keywords, tt_seen>>

at_vars == <<at_priority_keywords, at_category_keywords, at_sla_times,
             now, users, tickets, slaevents, alerts>>

rt_vars == <<rt_tickets>>

create_vars == <<pending>>

mfa_vars == <<mfa_codes, mfa_now, mfa_sent>>

am_vars == <<am_alerts>>

rm_vars == <<rm_monitoring, rm_monitor_task, rm_tasks, rm_stops>>

cm_vars == <<cm_active>>

\* the state of the services a ticket operation does not touch
svc_vars == <<create_vars, mfa_vars, am_vars, rm_vars, cm_vars>>

\* Python values of a request body: a str or None
Str(s) == [t |-> "str", v |-> s]

None == [t |-> "NoneType"]

IsStr(x) == x.t = "str"

(***************************************************************************)
(* Python string primitives                                                *)
(***************************************************************************)

\* the list with the elements f[1], ..., f[Len(f)]
List(f) == f \o <<>>

\* the characters of a string literal
Chars(s) == List([i \in 1..Len(s) |-> SubSeq(s, i, i)])

\* a list of string literals
Words(list) == List([i \in 1..Len(list) |-> Chars(list[i])])

\* keyword in content
Contains(keyword, content) ==
    \E i \in 1..(Len(content) - Len(keyword) + 1) :
        \A j \in 1..Len(keyword) : content[i + j - 1] = keyword[j]

UpperToLower ==
    [A |-> "a", B |-> "b", C |-> "c", D |-> "d", E |-> "e", F |-> "f",
     G |-> "g", H |-> "h", I |-> "i", J |-> "j", K |-> "k", L |-> "l",
     M |-> "m", N |-> "n", O |-> "o", P |-> "p", Q |-> "q", R |-> "r",
     S |-> "s", T |-> "t", U |-> "u", V |-> "v", W |-> "w", X |-> "x",
     Y |-> "y", Z |-> "z"]

\* str.lower() on ASCII text
Lower(s) ==
    List([i \in 1..Len(s) |->
             IF s[i] \in DOMAIN UpperToLower THEN UpperToLower[s[i]] ELSE s[i]])

\* sum(1 for keyword in keywords if keyword in content)
CountMatches(keywords, content) ==
    Cardinality({i \in 1..Len(keywords) : Contains(keywords[i], content)})

\* for keyword in keywords: if keyword in content: return ...
AnyMatch(keywords, content) ==
    \E i \in 1..Len(keywords) : Contains(keywords[i], content)

Min(a, b) == IF a <= b THEN a ELSE b

Max(a, b) == IF a >= b THEN a ELSE b

(***************************************************************************)
(* TicketTriageService                                                     *)
(***************************************************************************)

TT_PriorityKeywords ==
    [critical |-> Words(<<"down", "outage", "critical", "emergency", "urgent", "broken",
                    "not working", "failed", "error", "crash", "fatal">>),
     high     |-> Words(<<"slow", "performance", "issue", "problem", "bug", "not responding",
                    "timeout", "connection", "access", "login", "authentication">>),
     medium   |-> Words(<<"request", "help", "question", "information", "guidance",
                    "how to", "tutorial", "documentation">>),
     low      |-> Words(<<"password", "reset", "change", "update", "modify", "preference",
                    "setting", "configuration">>)]

TT_CategoryKeywords ==
    << [category |-> "system_down",
        keywords |-> Words(<<"down", "outage", "offline", "unavailable", "not accessible",
                       "server down", "service down", "system down">>)],
       [category |-> "performance_issue",
        keywords |-> Words(<<"slow", "performance", "lag", "timeout", "response time",
                       "bottleneck", "optimization">>)],
       [category |-> "password_reset",
        keywords |-> Words(<<"password", "reset", "forgot", "locked", "unlock",
                       "change password">>)],
       [category |-> "software_installation",
        keywords |-> Words(<<"install", "installation", "setup", "configure", "deploy",
                       "software", "application", "program">>)],
       [category |-> "hardware_issue",
        keywords |-> Words(<<"hardware", "device", "printer", "scanner", "monitor",
                       "keyboard", "mouse", "physical">>)],
       [category |-> "network_issue",
        keywords |-> Words(<<"network", "connection", "wifi", "ethernet", "internet",
                       "connectivity", "dns", "ip", "vpn">>)] >>

\* variant: the HIGH keywords are tested before the CRITICAL ones
TT_determine_priority_high_first(priority_keywords, content) ==
    IF AnyMatch(priority_keywords["high"], content) THEN "high"
    ELSE IF AnyMatch(priority_keywords["critical"], content) THEN "critical"
    ELSE IF AnyMatch(priority_keywords["low"], content) THEN "low"
    ELSE "medium"

TT_determine_priority(priority_keywords, content) ==
    IF AnyMatch(priority_keywords["critical"], content) THEN "critical"
    ELSE IF AnyMatch(priority_keywords["high"], content) THEN "high"
    ELSE IF AnyMatch(priority_keywords["low"], content) THEN "low"
    ELSE "medium"

\* category_scores, in the iteration order of category_keywords
TT_category_scores(category_keywords, content) ==
    List([i \in 1..Len(category_keywords) |->
             CountMatches(category_keywords[i].keywords, content)])

\* variant: the last key among those with the greatest score
TT_best_category_last(scores) ==
    CHOOSE i \in DOMAIN scores :
        /\ \A j \in DOMAIN scores : scores[j] <= scores[i]
        /\ \A j \in DOMAIN scores : j > i => scores[j] < scores[i]

\* max(category_scores, key=category_scores.get): the first key, in
\* iteration order, whose score is the greatest
TT_best_category(scores) ==
    CHOOSE i \in DOMAIN scores :
        /\ \A j \in DOMAIN scores : scores[j] <= scores[i]
        /\ \A j \in DOMAIN scores : j < i => scores[j] < scores[i]

\* variant: the best category is returned even when its score is 0
TT_determine_category_unchecked(category_keywords, content) ==
    LET category_scores == TT_category_scores(category_keywords, content)
    IN  IF Len(category_keywords) > 0
        THEN category_keywords[TT_best_category(category_scores)].category
        ELSE "other"

TT_determine_category(category_keywords, content) ==
    LET category_scores == TT_category_scores(category_keywords, content)
    IN  IF Len(category_keywords) > 0
           /\ category_scores[TT_best_category(category_scores)] > 0
        THEN category_keywords[TT_best_category(category_scores)].category
        ELSE "other"

\* variant: the lookup of the priority's list finds no key
TT_get_priority_keywords_missing(priority_keywords, priority) ==
    <<>>

\* dict.get(key, []) on the two tables
TT_get_priority_keywords(priority_keywords, priority) ==
    IF priority \in DOMAIN priority_keywords THEN priority_keywords[priority] ELSE <<>>

TT_get_category_keywords(category_keywords, category) ==
    IF \E i \in 1..Len(category_keywords) : category_keywords[i].category = category
    THEN category_keywords[CHOOSE i \in 1..Len(category_keywords) :
                               category_keywords[i].category = category].keywords
    ELSE <<>>

\* variant: the two contributions are not capped and the sum is not clamped
TT_calculate_confidence_uncapped(priority_keywords, category_keywords, content, priority, category) ==
    LET priority_matches ==
            CountMatches(TT_get_priority_keywords(priority_keywords, priority), content)
        category_matches ==
            CountMatches(TT_get_category_keywords(category_keywords, category), content)
    IN  50 + priority_matches * 10 + category_matches * 5

TT_calculate_confidence(priority_keywords, category_keywords, content, priority, category) ==
    LET priority_matches ==
            CountMatches(TT_get_priority_keywords(priority_keywords, priority), content)
        category_matches ==
            CountMatches(TT_get_category_keywords(category_keywords, category), content)
        c0 == 50
        c1 == IF priority_matches > 0 THEN c0 + Min(30, priority_matches * 10) ELSE c0
        c2 == IF category_matches > 0 THEN c1 + Min(20, category_matches * 5) ELSE c1
    IN  Min(100, Max(0, c2))

\* triage_ticket raises KeyError: _determine_priority indexes
\* priority_keywords by CRITICAL, HIGH and LOW in turn, until a keyword matches
TT_triage_raises(priority_keywords, title, description) ==
    LET content == Lower(title \o Chars(" ") \o description)
    IN  \/ "critical" \notin DOMAIN priority_keywords
        \/ /\ ~AnyMatch(priority_keywords["critical"], content)
           /\ \/ "high" \notin DOMAIN priority_keywords
              \/ /\ ~AnyMatch(priority_keywords["high"], content)
                 /\ "low" \notin DOMAIN priority_keywords

\* variant: the text is scored as typed, without .lower()
TT_triage_ticket_cased(priority_keywords, category_keywords, title, description) ==
    LET content  == title \o Chars(" ") \o description
        priority == TT_determine_priority(priority_keywords, content)
        category == TT_determine_category(category_keywords, content)
    IN  [priority |-> priority,
         category |-> category,
         confidence_score |->
             TT_calculate_confidence(priority_keywords, category_keywords,
                                 content, priority, category)]

TT_triage_ticket(priority_keywords, category_keywords, title, description) ==
    LET content  == Lower(title \o Chars(" ") \o description)
        priority == TT_determine_priority(priority_keywords, content)
        category == TT_determine_category(category_keywords, content)
    IN  [priority |-> priority,
         category |-> category,
         confidence_score |->
             TT_calculate_confidence(priority_keywords, category_keywords,
                                 content, priority, category)]


(***************************************************************************)
(* SimpleMLService                                                         *)
(***************************************************************************)

\* category_keywords and priority_keywords, in the iteration order of the
\* dicts
SM_CategoryKeywords ==
    << [category |-> "performance_issue",
        keywords |-> Words(<<"slow", "performance", "lag", "timeout", "cpu", "memory",
                       "disk", "bottleneck", "latency", "response time", "speed",
                       "overload">>)],
       [category |-> "bug",
        keywords |-> Words(<<"error", "bug", "crash", "broken", "malfunction", "defect",
                       "issue", "problem", "fault", "failure", "exception", "wrong",
                       "incorrect">>)],
       [category |-> "feature_request",
        keywords |-> Words(<<"feature", "enhancement", "improvement", "add", "new",
                       "request", "suggestion", "capability", "functionality", "tool",
                       "option">>)],
       [category |-> "incident",
        keywords |-> Words(<<"down", "outage", "emergency", "critical", "urgent",
                       "system down", "service unavailable", "production", "major",
                       "severe", "blocking">>)] >>

SM_PriorityKeywords ==
    << [priority |-> "critical",
        keywords |-> Words(<<"critical", "emergency", "urgent", "down", "outage",
                       "production", "blocking", "severe", "major", "asap",
                       "immediately">>)],
       [priority |-> "high",
        keywords |-> Words(<<"high", "important", "priority", "soon", "quickly",
                       "significant", "affecting", "impact", "business">>)],
       [priority |-> "medium",
        keywords |-> Words(<<"medium", "normal", "standard", "regular", "usual",
                       "typical">>)],
       [priority |-> "low",
        keywords |-> Words(<<"low", "minor", "small", "trivial", "cosmetic",
                       "nice to have", "when possible", "eventually">>)] >>

\* base_time, in tenths of an hour
SM_base_time == [critical |-> 20, high |-> 60, medium |-> 120, low |-> 240]

\* values of random.uniform(-1, 3), in tenths of an hour
SM_Variations == {-10, 0, 10, 30}

\* the score of every key of a table, in iteration order
SM_scores(table, combined_text) ==
    List([i \in 1..Len(table) |-> CountMatches(table[i].keywords, combined_text)])

\* max(scores, key=scores.get): the first key whose score is the greatest
SM_max_key(scores) ==
    CHOOSE i \in DOMAIN scores :
        /\ \A j \in DOMAIN scores : scores[j] <= scores[i]
        /\ \A j \in DOMAIN scores : j < i => scores[j] < scores[i]

\* classify_ticket: confidences in thousandths, hours in tenths.  With two
\* texts no statement of the try block raises.
SM_classify_ticket(title, description, variation) ==
    LET combined_text   == Lower(title \o Chars(" ") \o description)
        category_scores == SM_scores(SM_CategoryKeywords, combined_text)
        predicted_category ==
            IF Len(category_scores) > 0
            THEN SM_CategoryKeywords[SM_max_key(category_scores)].category
            ELSE "other"
        category_confidence ==
            Min(900, Max(300, category_scores[SM_max_key(category_scores)] * 200))
        priority_scores == SM_scores(SM_PriorityKeywords, combined_text)
        predicted_priority ==
            IF Len(priority_scores) > 0
            THEN SM_PriorityKeywords[SM_max_key(priority_scores)].priority
            ELSE "medium"
        priority_confidence ==
            Min(900, Max(300, priority_scores[SM_max_key(priority_scores)] * 250))
        predicted_resolution_time ==
            Max(10, Min(480, SM_base_time[predicted_priority] + variation))
    IN  [category |-> predicted_category,
         category_confidence |-> category_confidence,
         priority |-> predicted_priority,
         priority_confidence |-> priority_confidence,
         predicted_resolution_time_hours |-> predicted_resolution_time,
         urgency_score |-> priority_scores[SM_max_key(priority_scores)],
         auto_categorized |-> TRUE,
         ml_confidence |-> (category_confidence + priority_confidence) \div 2]


(***************************************************************************)
(* AutoTriageService                                                       *)
(***************************************************************************)

AT_PriorityKeywords ==
    [CRITICAL |-> Words(<<"down", "outage", "critical", "urgent", "emergency", "fatal",
                    "system down", "service unavailable", "complete failure",
                    "security breach", "data loss", "cannot access">>),
     HIGH     |-> Words(<<"slow", "performance", "timeout", "error", "failed",
                    "not working", "broken", "issue", "problem", "bug",
                    "login failed", "access denied", "connection error">>),
     MEDIUM   |-> Words(<<"question", "help", "how to", "tutorial", "guide",
                    "feature request", "enhancement", "improvement",
                    "configuration", "setup", "installation">>),
     LOW      |-> Words(<<"information", "general", "inquiry", "question",
                    "documentation", "training", "best practice">>)]

AT_CategoryKeywords ==
    << [category |-> "Network",
        keywords |-> Words(<<"network", "connection", "internet", "wifi", "vpn", "dns", "ip">>)],
       [category |-> "Hardware",
        keywords |-> Words(<<"computer", "laptop", "desktop", "printer", "scanner", "hardware">>)],
       [category |-> "Software",
        keywords |-> Words(<<"software", "application", "program", "install", "update", "license">>)],
       [category |-> "Email",
        keywords |-> Words(<<"email", "outlook", "mail", "smtp", "imap", "exchange">>)],
       [category |-> "Security",
        keywords |-> Words(<<"password", "login", "authentication", "security", "access",
                       "permission">>)],
       [category |-> "Account",
        keywords |-> Words(<<"account", "user", "profile", "registration", "signup", "login">>)],
       [category |-> "Database",
        keywords |-> Words(<<"database", "db", "sql", "query", "data", "backup">>)],
       [category |-> "General", keywords |-> Words(<<>>)] >>

AT_SlaTimes == [CRITICAL |-> 1, HIGH |-> 4, MEDIUM |-> 24, LOW |-> 72]

AT_EscalationKeywords ==
    Words(<<"escalate", "manager", "supervisor", "urgent", "immediate",
            "asap", "right now", "cannot wait">>)

\* Max 5 tickets per agent
AT_MaxTicketsPerAgent == 5

\* variant: the HIGH keywords are tested before the CRITICAL ones
AT_determine_priority_high_first(priority_keywords, content) ==
    LET content_lower == Lower(content)
    IN  IF AnyMatch(priority_keywords["HIGH"], content_lower) THEN "HIGH"
        ELSE IF AnyMatch(priority_keywords["CRITICAL"], content_lower) THEN "CRITICAL"
        ELSE IF AnyMatch(priority_keywords["MEDIUM"], content_lower) THEN "MEDIUM"
        ELSE "LOW"

AT_determine_priority(priority_keywords, content) ==
    LET content_lower == Lower(content)
    IN  IF AnyMatch(priority_keywords["CRITICAL"], content_lower) THEN "CRITICAL"
        ELSE IF AnyMatch(priority_keywords["HIGH"], content_lower) THEN "HIGH"
        ELSE IF AnyMatch(priority_keywords["MEDIUM"], content_lower) THEN "MEDIUM"
        ELSE "LOW"

AT_determine_category(category_keywords, content) ==
    LET content_lower == Lower(content)
        hits == {i \in 1..Len(category_keywords) :
                    /\ category_keywords[i].category # "General"
                    /\ AnyMatch(category_keywords[i].keywords, content_lower)}
    IN  IF hits # {}
        THEN category_keywords[CHOOSE i \in hits : \A j \in hits : i <= j].category
        ELSE "General"

\* variant: a HIGH priority escalates as well
AT_determine_escalation_high(content, priority) ==
    LET content_lower == Lower(content)
    IN  IF AnyMatch(AT_EscalationKeywords, content_lower) THEN 1
        ELSE IF priority = "CRITICAL" THEN 1
        ELSE IF priority = "HIGH" THEN 1
        ELSE 0

AT_determine_escalation(content, priority) ==
    LET content_lower == Lower(content)
    IN  IF AnyMatch(AT_EscalationKeywords, content_lower) THEN 1
        ELSE IF priority = "CRITICAL" THEN 1
        ELSE IF priority = "HIGH" THEN 0
        ELSE 0

\* db.ticket.count(where assignedTo = agent, status in [OPEN, IN_PROGRESS])
AT_current_tickets(db_tickets, agent_id) ==
    Cardinality({i \in 1..Len(db_tickets) :
                    /\ db_tickets[i].assignedTo = Str(agent_id)
                    /\ db_tickets[i].status \in {"OPEN", "IN_PROGRESS"}})

\* variant: an agent holding exactly 5 tickets is still assigned
AT_auto_assign_inclusive(db_users, db_tickets, db_ok, priority, category) ==
    LET agents == {i \in 1..Len(db_users) :
                      db_users[i].role = "AGENT" /\ db_users[i].isActive}
        free   == {i \in agents :
                      AT_current_tickets(db_tickets, db_users[i].id) <= AT_MaxTicketsPerAgent}
    IN  IF ~db_ok THEN None
        ELSE IF agents = {} THEN None
        ELSE IF free # {}
        THEN Str(db_users[CHOOSE i \in free : \A j \in free : i <= j].id)
        ELSE None

\* db_ok = FALSE: get_database() or a query raises inside _auto_assign
AT_auto_assign(db_users, db_tickets, db_ok, priority, category) ==
    LET agents == {i \in 1..Len(db_users) :
                      db_users[i].role = "AGENT" /\ db_users[i].isActive}
        free   == {i \in agents :
                      AT_current_tickets(db_tickets, db_users[i].id) < AT_MaxTicketsPerAgent}
    IN  IF ~db_ok THEN None
        ELSE IF agents = {} THEN None
        ELSE IF free # {}
        THEN Str(db_users[CHOOSE i \in free : \A j \in free : i <= j].id)
        ELSE None

\* variant: only the rows strictly past their deadline are selected
AT_violating_tickets_strict(db_tickets, clock) ==
    {i \in 1..Len(db_tickets) :
        /\ db_tickets[i].status \in {"OPEN", "IN_PROGRESS"}
        /\ db_tickets[i].slaDeadline < clock}

\* indices of the rows check_sla_violations selects: OPEN or IN_PROGRESS
\* with slaDeadline <= now
AT_violating_tickets(db_tickets, clock) ==
    {i \in 1..Len(db_tickets) :
        /\ db_tickets[i].status \in {"OPEN", "IN_PROGRESS"}
        /\ db_tickets[i].slaDeadline <= clock}

\* variant: a violation raises the escalation level by two
AT_handle_sla_violation_twice(ticket) ==
    [ticket EXCEPT !.escalationLevel = @ + 2, !.priority = "CRITICAL"]

\* the row db.ticket.update writes in _handle_sla_violation
AT_handle_sla_violation(ticket) ==
    [ticket EXCEPT !.escalationLevel = @ + 1, !.priority = "CRITICAL"]

\* the try block of triage_ticket: exc = TRUE when a statement raises
AT_triage_body(priority_keywords, category_keywords, sla_times, ticket_data, clock, db_users, db_tickets, db_ok) ==
    LET title_arg == IF "title" \in DOMAIN ticket_data THEN ticket_data.title ELSE Str(<<>>)
        desc_arg  == IF "description" \in DOMAIN ticket_data
                     THEN ticket_data.description ELSE Str(<<>>)
    IN  IF ~IsStr(title_arg) \/ ~IsStr(desc_arg)
        THEN [exc |-> TRUE]          \* AttributeError: no attribute 'lower'
        ELSE
        LET content  == Lower(title_arg.v) \o Chars(" ") \o Lower(desc_arg.v)
            priority == AT_determine_priority(priority_keywords, content)
            category == AT_determine_category(category_keywords, content)
        IN  IF priority \notin DOMAIN sla_times
            THEN [exc |-> TRUE]      \* KeyError
            ELSE [exc |-> FALSE,
                  val |-> [priority         |-> priority,
                           category         |-> category,
                           sla_deadline     |-> clock + sla_times[priority],
                           escalation_level |-> AT_determine_escalation(content, priority),
                           assigned_to      |-> AT_auto_assign(db_users, db_tickets, db_ok,
                                                               priority, category),
                           auto_triaged     |-> TRUE]]

\* variant: the fallback deadline uses the LOW duration
AT_default_result_low_sla(clock) ==
    [priority         |-> "MEDIUM",
     category         |-> "General",
     sla_deadline     |-> clock + 72,
     escalation_level |-> 0,
     assigned_to      |-> None,
     auto_triaged     |-> FALSE]

\* the result of the except branch
AT_default_result(clock) ==
    [priority         |-> "MEDIUM",
     category         |-> "General",
     sla_deadline     |-> clock + 24,
     escalation_level |-> 0,
     assigned_to      |-> None,
     auto_triaged     |-> FALSE]

\* variant: no except branch, the exception reaches the caller
AT_triage_ticket_uncaught(priority_keywords, category_keywords, sla_times, ticket_data, clock, db_users, db_tickets, db_ok) ==
    LET body == AT_triage_body(priority_keywords, category_keywords, sla_times,
                               ticket_data, clock, db_users, db_tickets, db_ok)
    IN  IF body.exc
        THEN [raised |-> TRUE,  caught |-> FALSE, ret |-> None]
        ELSE [raised |-> FALSE, caught |-> FALSE, ret |-> body.val]

\* raised: an exception leaves triage_ticket; caught: the except branch ran
AT_triage_ticket(priority_keywords, category_keywords, sla_times, ticket_data, clock, db_users, db_tickets, db_ok) ==
    LET body == AT_triage_body(priority_keywords, category_keywords, sla_times,
                               ticket_data, clock, db_users, db_tickets, db_ok)
    IN  IF body.exc
        THEN [raised |-> FALSE, caught |-> TRUE,  ret |-> AT_default_result(clock)]
        ELSE [raised |-> FALSE, caught |-> FALSE, ret |-> body.val]


(***************************************************************************)
(* Requests                                                                *)
(***************************************************************************)

RECURSIVE JoinWords(_)
\* " ".join(words)
JoinWords(words) ==
    IF Len(words) = 0 THEN <<>>
    ELSE IF Len(words) = 1 THEN words[1]
    ELSE words[1] \o Chars(" ") \o JoinWords(Tail(words))

\* a text that contains every keyword of every table of TicketTriageService
AllKeywordsText ==
    JoinWords(
        TT_PriorityKeywords["critical"] \o TT_PriorityKeywords["high"] \o
        TT_PriorityKeywords["medium"] \o TT_PriorityKeywords["low"] \o
        TT_CategoryKeywords[1].keywords \o TT_CategoryKeywords[2].keywords \o
        TT_CategoryKeywords[3].keywords \o TT_CategoryKeywords[4].keywords \o
        TT_CategoryKeywords[5].keywords \o TT_CategoryKeywords[6].keywords)

Titles ==
    {"", "hello", "Server Down", "help password", "slow password",
     "password reset slow", "urgent update", "call my manager"}

Descriptions ==
    {"", "need help", "URGENT: slow", "printer offline"}

\* (title, description) pairs submitted to TicketTriageService.triage_ticket
Texts ==
    {<<Chars(x[1]), Chars(x[2])>> : x \in Titles \X Descriptions}
    \cup {<<AllKeywordsText, <<>> >>}

\* the inputs whose results are remembered across calls
Probes == {<<Chars("slow password"), Chars("need help")>>, <<Chars(""), Chars("")>>}

(***************************************************************************)
(* State                                                                   *)
(***************************************************************************)

\* hours the clock may advance
MaxNow == 1

\* tickets the database may hold
MaxTickets == 1

\* results remembered for each probe input
MaxSeen == 2

\* tickets created by the concurrent requests
MaxRaceTickets == 2

\* tasks asyncio.create_task makes for _monitor_loop
MaxTasks == 3

\* rows of the alerts table
MaxAlerts == 2

\* clock steps of the verification-code service
MaxMfaTicks == 3

\* wrong codes a user submits for one generated code
MaxWrong == 4

\* escalation level up to which the SLA scan is followed
MaxEscalation == 3

UserRows ==
    << [id |-> "u1", role |-> "CUSTOMER", isActive |-> TRUE],
       [id |-> "a1", role |-> "AGENT",    isActive |-> TRUE],
       [id |-> "a2", role |-> "AGENT",    isActive |-> TRUE] >>

\* a priority table without the CRITICAL list
TT_MalformedPriorityKeywords ==
    [k \in {"high", "medium", "low"} |-> TT_PriorityKeywords[k]]

\* callers of create_ticket that may be in flight together
CreateRequests == {"r1", "r2"}

\* users asking for verification codes
MfaUsers == {"u1"}

\* callers of stop_monitoring that may be in flight together
StopCallers == {"s1", "s2"}

\* MFAService(), AlertManager(), RealtimeMonitor() and ConnectionManager()
\* as constructed, and no request in flight
InitSvc ==
    /\ pending = [r \in CreateRequests |-> None]
    /\ mfa_codes = [u \in MfaUsers |-> None]
    /\ mfa_now = 0
    /\ mfa_sent = [u \in MfaUsers |-> None]
    /\ am_alerts = <<>>
    /\ rm_monitoring = FALSE
    /\ rm_monitor_task = 0
    /\ rm_tasks = <<>>
    /\ rm_stops = [c \in StopCallers |-> 0]
    /\ cm_active = <<>>

InitServices ==
    /\ InitSvc
    /\ tt_priority_keywords = TT_PriorityKeywords
    /\ tt_category_keywords = TT_CategoryKeywords
    /\ at_priority_keywords = AT_PriorityKeywords
    /\ at_category_keywords = AT_CategoryKeywords
    /\ at_sla_times = AT_SlaTimes
    /\ tt_seen = [p \in Probes |-> <<>>]
    /\ call = [op |-> "none"]

Init ==
    /\ InitServices
    /\ now = 0
    /\ users = UserRows
    /\ tickets = <<>>
    /\ slaevents = <<>>
    /\ alerts = <<>>
    /\ rt_tickets = <<>>

\* user tables: both agents active, one active, none active
AssignUserRows ==
    {<< [id |-> "u1", role |-> "CUSTOMER", isActive |-> TRUE],
        [id |-> "a1", role |-> "AGENT",    isActive |-> x[1]],
        [id |-> "a2", role |-> "AGENT",    isActive |-> x[2]] >> :
        x \in {<<TRUE, TRUE>>, <<TRUE, FALSE>>, <<FALSE, FALSE>>}}

\* a stored ticket of user u1 with the given id, assignee and status
StoredTicket(id, agent_id, status) ==
    [id              |-> id,
     title           |-> Chars("hello"),
     description     |-> Chars(""),
     priority        |-> "LOW",
     category        |-> "General",
     status          |-> status,
     assignedTo      |-> Str(agent_id),
     createdBy       |-> "u1",
     slaDeadline     |-> AT_SlaTimes["LOW"],
     escalationLevel |-> 0]

\* a ticket table with k1 tickets of a1 and k2 tickets of a2 in progress,
\* after one resolved ticket of a1
AssignedTickets(k1, k2) ==
    IF k1 + k2 = 0 THEN <<>>
    ELSE List([i \in 1..(1 + k1 + k2) |->
                 IF i = 1 THEN StoredTicket(i, "a1", "RESOLVED")
                 ELSE IF i <= 1 + k1
                      THEN StoredTicket(i, "a1", IF i = 2 THEN "IN_PROGRESS" ELSE "OPEN")
                      ELSE StoredTicket(i, "a2", "OPEN")])

\* workloads around the capacity ceiling
AssignWorkloads ==
    {<<0, 0>>,
     <<AT_MaxTicketsPerAgent - 1, AT_MaxTicketsPerAgent>>,
     <<AT_MaxTicketsPerAgent, 0>>,
     <<AT_MaxTicketsPerAgent, AT_MaxTicketsPerAgent>>,
     <<AT_MaxTicketsPerAgent + 1, AT_MaxTicketsPerAgent>>}

\* as Init, with agents switched off and tickets already assigned
InitAssign ==
    /\ InitServices
    /\ now = 0
    /\ users \in AssignUserRows
    /\ tickets \in {AssignedTickets(k[1], k[2]) : k \in AssignWorkloads}
    /\ slaevents = List([i \in 1..Len(tickets) |->
                             [ticketId |-> i, eventType |-> "created"]])
    /\ alerts = <<>>
    /\ rt_tickets = <<>>

\* a ticket table for the SLA scan: an overdue OPEN ticket, an overdue
\* RESOLVED one, an IN_PROGRESS one due in an hour, an OPEN one due later
ScanTickets ==
    << [StoredTicket(1, "a1", "OPEN") EXCEPT !.slaDeadline = 0],
       [StoredTicket(2, "a1", "RESOLVED") EXCEPT !.slaDeadline = 0],
       [StoredTicket(3, "a2", "IN_PROGRESS") EXCEPT
           !.slaDeadline = 1, !.priority = "HIGH", !.escalationLevel = 1],
       StoredTicket(4, "a2", "OPEN") >>

\* as Init, with the tickets of ScanTickets stored
InitScan ==
    /\ InitServices
    /\ now = 0
    /\ users = UserRows
    /\ tickets = ScanTickets
    /\ slaevents = List([i \in 1..Len(tickets) |->
                             [ticketId |-> i, eventType |-> "created"]])
    /\ alerts = <<>>
    /\ rt_tickets = <<>>

\* the ticket table before the concurrent requests: agent a1 is one ticket
\* below the ceiling, agent a2 has none
RaceTickets == AssignedTickets(AT_MaxTicketsPerAgent - 1, 0)

\* as Init, with the tickets of RaceTickets stored
InitRace ==
    /\ InitServices
    /\ now = 0
    /\ users = UserRows
    /\ tickets = RaceTickets
    /\ slaevents = List([i \in 1..Len(tickets) |->
                             [ticketId |-> i, eventType |-> "created"]])
    /\ alerts = <<>>
    /\ rt_tickets = <<>>

\* as Init, with either priority table installed in TicketTriageService
InitCreate ==
    /\ InitSvc
    /\ tt_priority_keywords \in {TT_PriorityKeywords, TT_MalformedPriorityKeywords}
    /\ tt_category_keywords = TT_CategoryKeywords
    /\ at_priority_keywords = AT_PriorityKeywords
    /\ at_category_keywords = AT_CategoryKeywords
    /\ at_sla_times = AT_SlaTimes
    /\ tt_seen = [p \in Probes |-> <<>>]
    /\ call = [op |-> "none"]
    /\ now = 0
    /\ users = UserRows
    /\ tickets = <<>>
    /\ slaevents = <<>>
    /\ alerts = <<>>
    /\ rt_tickets = <<>>

(***************************************************************************)
(* Operations                                                              *)
(***************************************************************************)

\* the MaxSeen most recent entries of a log
LastSeen(log) ==
    IF Len(log) <= MaxSeen THEN log ELSE SubSeq(log, Len(log) - MaxSeen + 1, Len(log))

\* variant: scoring removes the first keyword of the resolved priority
\* from its list
TriageTicket_consuming(title, description) ==
    LET ret == TT_triage_ticket(tt_priority_keywords, tt_category_keywords,
                                title, description)
    IN  /\ call' = [op |-> "TicketTriageService.triage_ticket",
                    title |-> title, description |-> description,
                    raised |-> FALSE, ret |-> ret]
        /\ tt_seen' = IF <<title, description>> \in Probes
                      THEN [tt_seen EXCEPT ![<<title, description>>] =
                                LastSeen(Append(@, ret))]
                      ELSE tt_seen
        /\ tt_priority_keywords' =
              [tt_priority_keywords EXCEPT ![ret.priority] = Tail(@)]
        /\ UNCHANGED tt_category_keywords
        /\ UNCHANGED at_vars
        /\ UNCHANGED rt_vars
        /\ UNCHANGED svc_vars

\* TicketTriageService.triage_ticket(title, description)
TriageTicket(title, description) ==
    LET ret == TT_triage_ticket(tt_priority_keywords, tt_category_keywords,
                                title, description)
    IN  /\ call' = [op |-> "TicketTriageService.triage_ticket",
                    title |-> title, description |-> description,
                    raised |-> FALSE, ret |-> ret]
        /\ tt_seen' = IF <<title, description>> \in Probes
                      THEN [tt_seen EXCEPT ![<<title, description>>] =
                                LastSeen(Append(@, ret))]
                      ELSE tt_seen
        /\ UNCHANGED <<tt_priority_keywords, tt_category_keywords>>
        /\ UNCHANGED at_vars
        /\ UNCHANGED rt_vars
        /\ UNCHANGED svc_vars

\* variant: the call stores the assignee it chose on the oldest ticket
AutoTriageTicket_writing(ticket_data, db_ok) ==
    LET out == AT_triage_ticket(at_priority_keywords, at_category_keywords, at_sla_times,
                                ticket_data, now, users, tickets, db_ok)
    IN  /\ call' = [op |-> "AutoTriageService.triage_ticket",
                    ticket_data |-> ticket_data, db_ok |-> db_ok, at |-> now,
                    raised |-> out.raised, caught |-> out.caught, ret |-> out.ret]
        /\ tickets' = IF tickets = <<>> THEN tickets
                      ELSE [tickets EXCEPT ![1].assignedTo = out.ret.assigned_to]
        /\ UNCHANGED <<at_priority_keywords, at_category_keywords, at_sla_times,
                       now, users, slaevents, alerts>>
        /\ UNCHANGED tt_vars
        /\ UNCHANGED rt_vars
        /\ UNCHANGED svc_vars

\* AutoTriageService.triage_ticket(ticket_data)
AutoTriageTicket(ticket_data, db_ok) ==
    LET out == AT_triage_ticket(at_priority_keywords, at_category_keywords, at_sla_times,
                                ticket_data, now, users, tickets, db_ok)
    IN  /\ call' = [op |-> "AutoTriageService.triage_ticket",
                    ticket_data |-> ticket_data, db_ok |-> db_ok, at |-> now,
                    raised |-> out.raised, caught |-> out.caught, ret |-> out.ret]
        /\ UNCHANGED at_vars
        /\ UNCHANGED tt_vars
        /\ UNCHANGED rt_vars
        /\ UNCHANGED svc_vars

\* POST /api/tickets of main_dynamic.py, by an authenticated user.
\*   db = "down":  get_database() raises, the handler answers 500
\*   db = "flaky": the queries of _auto_assign raise, the writes succeed
\*   db = "ok":    every query succeeds
\* manager.active_connections is empty, so the broadcast sends nothing.
CreateTicket(body, current_user, db) ==
    LET out == AT_triage_ticket(at_priority_keywords, at_category_keywords, at_sla_times,
                                [title |-> Str(body.title),
                                 description |-> Str(body.description)],
                                now, users, tickets, db = "ok")
        ticket == [id              |-> Len(tickets) + 1,
                   title           |-> body.title,
                   description     |-> body.description,
                   priority        |-> out.ret.priority,
                   category        |-> out.ret.category,
                   status          |-> "OPEN",
                   assignedTo      |-> out.ret.assigned_to,
                   createdBy       |-> current_user,
                   slaDeadline     |-> out.ret.sla_deadline,
                   escalationLevel |-> out.ret.escalation_level]
    IN  /\ Len(tickets) < MaxTickets
        /\ IF db = "down" \/ out.raised
           THEN /\ call' = [op |-> "create_ticket", body |-> body, db |-> db,
                            at |-> now, status |-> 500]
                /\ UNCHANGED <<tickets, slaevents>>
           ELSE /\ tickets' = Append(tickets, ticket)
                /\ slaevents' = Append(slaevents,
                                       [ticketId |-> ticket.id, eventType |-> "created"])
                /\ call' = [op |-> "create_ticket", body |-> body, db |-> db,
                            at |-> now, status |-> 200,
                            raised |-> out.raised, caught |-> out.caught,
                            ret |-> out.ret]
        /\ UNCHANGED <<at_priority_keywords, at_category_keywords, at_sla_times,
                       now, users, alerts>>
        /\ UNCHANGED tt_vars
        /\ UNCHANGED rt_vars
        /\ UNCHANGED svc_vars

\* POST / of api/routes/tickets.py, by an active user.  db_ok = FALSE:
\* db.commit() raises.  An exception leaving the handler is answered 500.
\* the primary key db.add gives a new row: one above the highest in the table
RT_next_id(rows) ==
    IF rows = <<>> THEN 1
    ELSE 1 + (CHOOSE m \in {rows[i].id : i \in 1..Len(rows)} :
                 \A i \in 1..Len(rows) : rows[i].id <= m)

RoutesCreateTicket(ticket_data, current_user, db_ok) ==
    LET raises == TT_triage_raises(tt_priority_keywords,
                                   ticket_data.title, ticket_data.description)
        triage_result == TT_triage_ticket(tt_priority_keywords, tt_category_keywords,
                                          ticket_data.title, ticket_data.description)
        db_ticket ==
            [id               |-> RT_next_id(rt_tickets),
             title            |-> ticket_data.title,
             description      |-> ticket_data.description,
             priority         |-> IF ticket_data.priority # None
                                  THEN ticket_data.priority.v
                                  ELSE triage_result.priority,
             category         |-> IF ticket_data.category # None
                                  THEN ticket_data.category.v
                                  ELSE triage_result.category,
             status           |-> "open",
             created_by       |-> current_user,
             assigned_to      |-> None,
             created_at       |-> now,
             resolved_at      |-> None,
             auto_categorized |-> (ticket_data.priority = None
                                      \/ ticket_data.category = None),
             confidence_score |-> triage_result.confidence_score]
    IN  /\ Len(rt_tickets) < MaxTickets
        /\ IF raises \/ ~db_ok
           THEN /\ call' = [op |-> "tickets.create_ticket", ticket_data |-> ticket_data,
                            db_ok |-> db_ok, triage_raised |-> raises, status |-> 500]
                /\ UNCHANGED rt_tickets
           ELSE /\ rt_tickets' = Append(rt_tickets, db_ticket)
                /\ call' = [op |-> "tickets.create_ticket", ticket_data |-> ticket_data,
                            db_ok |-> db_ok, triage_raised |-> raises, status |-> 200,
                            ret |-> db_ticket]
        /\ UNCHANGED at_vars
        /\ UNCHANGED tt_vars
        /\ UNCHANGED svc_vars

\* variant: the first failing update ends the scan
CheckSlaViolations_aborting(db, failed) ==
    LET violating == AT_violating_tickets(tickets, now)
        handled == {i \in violating : \A j \in failed : i < j}
        IsHandled(i) == i \in handled
        rows == SelectSeq(List([i \in 1..Len(tickets) |-> i]), IsHandled)
    IN  /\ failed \subseteq violating
        /\ db = "down" => failed = {}
        /\ \A i \in handled : tickets[i].escalationLevel < MaxEscalation
        /\ IF db = "down"
           THEN UNCHANGED <<tickets, slaevents, alerts>>
           ELSE /\ tickets' = List([i \in 1..Len(tickets) |->
                                       IF i \in handled
                                       THEN AT_handle_sla_violation(tickets[i])
                                       ELSE tickets[i]])
                /\ IF db = "flaky"
                   THEN UNCHANGED <<slaevents, alerts>>
                   ELSE /\ slaevents' = slaevents \o
                              List([k \in 1..Len(rows) |->
                                       [ticketId  |-> tickets[rows[k]].id,
                                        eventType |-> "escalated"]])
                        /\ alerts' = alerts \o
                              List([k \in 1..Len(rows) |->
                                       [severity |-> "HIGH", source |-> "sla",
                                        ticketId |-> tickets[rows[k]].id]])
        /\ call' = [op |-> "check_sla_violations", db |-> db, at |-> now,
                    violating |-> Cardinality(violating), failed |-> failed]
        /\ UNCHANGED <<at_priority_keywords, at_category_keywords, at_sla_times,
                       now, users>>
        /\ UNCHANGED tt_vars
        /\ UNCHANGED rt_vars
        /\ UNCHANGED svc_vars

\* one round of start_sla_monitoring: check_sla_violations().
\*   db = "down":  get_database() or find_many raises, nothing is written
\*   db = "flaky": the ticket updates succeed, db.slaevent.create raises
\*   db = "ok":    every query succeeds
\*   failed:       the selected rows whose db.ticket.update raises
CheckSlaViolations(db, failed) ==
    LET violating == AT_violating_tickets(tickets, now)
        handled == violating \ failed
        IsHandled(i) == i \in handled
        rows == SelectSeq(List([i \in 1..Len(tickets) |-> i]), IsHandled)
    IN  /\ failed \subseteq violating
        /\ db = "down" => failed = {}
        /\ \A i \in handled : tickets[i].escalationLevel < MaxEscalation
        /\ IF db = "down"
           THEN UNCHANGED <<tickets, slaevents, alerts>>
           ELSE /\ tickets' = List([i \in 1..Len(tickets) |->
                                       IF i \in handled
                                       THEN AT_handle_sla_violation(tickets[i])
                                       ELSE tickets[i]])
                /\ IF db = "flaky"
                   THEN UNCHANGED <<slaevents, alerts>>
                   ELSE /\ slaevents' = slaevents \o
                              List([k \in 1..Len(rows) |->
                                       [ticketId  |-> tickets[rows[k]].id,
                                        eventType |-> "escalated"]])
                        /\ alerts' = alerts \o
                              List([k \in 1..Len(rows) |->
                                       [severity |-> "HIGH", source |-> "sla",
                                        ticketId |-> tickets[rows[k]].id]])
        /\ call' = [op |-> "check_sla_violations", db |-> db, at |-> now,
                    violating |-> Cardinality(violating), failed |-> failed]
        /\ UNCHANGED <<at_priority_keywords, at_category_keywords, at_sla_times,
                       now, users>>
        /\ UNCHANGED tt_vars
        /\ UNCHANGED rt_vars
        /\ UNCHANGED svc_vars

\* POST /api/tickets of main_dynamic.py up to its await of db.ticket.create:
\* request r has got its triage result, the assignee included
CreateTicketTriage(r, body, current_user, db) ==
    LET out == AT_triage_ticket(at_priority_keywords, at_category_keywords, at_sla_times,
                                [title |-> Str(body.title),
                                 description |-> Str(body.description)],
                                now, users, tickets, db = "ok")
        in_flight == Cardinality({q \in CreateRequests : pending[q] # None})
    IN  /\ pending[r] = None
        /\ Len(tickets) + in_flight < Len(RaceTickets) + MaxRaceTickets
        /\ IF db = "down" \/ out.raised
           THEN /\ call' = [op |-> "create_ticket", body |-> body, db |-> db,
                            at |-> now, status |-> 500]
                /\ UNCHANGED pending
           ELSE /\ pending' = [pending EXCEPT ![r] =
                                  [body |-> body, current_user |-> current_user,
                                   db |-> db, at |-> now, triage_result |-> out.ret]]
                /\ call' = [op |-> "create_ticket.triage", request |-> r,
                            body |-> body, db |-> db, at |-> now, ret |-> out.ret]
        /\ UNCHANGED at_vars
        /\ UNCHANGED tt_vars
        /\ UNCHANGED rt_vars
        /\ UNCHANGED <<mfa_vars, am_vars, rm_vars, cm_vars>>

\* the rest of the same request: db.ticket.create with the triage result it
\* holds, db.slaevent.create, the broadcast to no connection, the answer
CreateTicketStore(r) ==
    LET req == pending[r]
        ticket == [id              |-> Len(tickets) + 1,
                   title           |-> req.body.title,
                   description     |-> req.body.description,
                   priority        |-> req.triage_result.priority,
                   category        |-> req.triage_result.category,
                   status          |-> "OPEN",
                   assignedTo      |-> req.triage_result.assigned_to,
                   createdBy       |-> req.current_user,
                   slaDeadline     |-> req.triage_result.sla_deadline,
                   escalationLevel |-> req.triage_result.escalation_level]
    IN  /\ pending[r] # None
        /\ tickets' = Append(tickets, ticket)
        /\ slaevents' = Append(slaevents,
                               [ticketId |-> ticket.id, eventType |-> "created"])
        /\ pending' = [pending EXCEPT ![r] = None]
        /\ call' = [op |-> "create_ticket", body |-> req.body, db |-> req.db,
                    at |-> req.at, status |-> 200, raised |-> FALSE,
                    caught |-> ~req.triage_result.auto_triaged,
                    ret |-> req.triage_result]
        /\ UNCHANGED <<at_priority_keywords, at_category_keywords, at_sla_times,
                       now, users, alerts>>
        /\ UNCHANGED tt_vars
        /\ UNCHANGED rt_vars
        /\ UNCHANGED <<mfa_vars, am_vars, rm_vars, cm_vars>>

\* SimpleMLService.classify_ticket(title, description)
SimpleClassifyTicket(title, description, variation) ==
    /\ call' = [op |-> "SimpleMLService.classify_ticket",
                title |-> title, description |-> description,
                ret |-> SM_classify_ticket(title, description, variation)]
    /\ UNCHANGED at_vars
    /\ UNCHANGED tt_vars
    /\ UNCHANGED rt_vars
    /\ UNCHANGED svc_vars

\* an hour passes
Tick ==
    /\ now < MaxNow
    /\ now' = now + 1
    /\ UNCHANGED <<at_priority_keywords, at_category_keywords, at_sla_times,
                   users, tickets, slaevents, alerts, call>>
    /\ UNCHANGED tt_vars
    /\ UNCHANGED rt_vars
    /\ UNCHANGED svc_vars



\* ticket_data dicts handed to AutoTriageService.triage_ticket: well-formed
\* ones, and ones with a None or absent field
AutoTicketDatas ==
    {[title |-> Str(Chars(x[1])), description |-> Str(Chars(x[2]))] :
        x \in {<<"", "">>, <<"hello", "">>, <<"Server Down", "need help">>,
               <<"slow password", "">>, <<"help password", "">>,
               <<"urgent update", "">>, <<"question", "general inquiry">>,
               <<"call my manager", "printer offline">>,
               <<"vpn password login", "">>}}
    \cup {[title |-> None, description |-> Str(Chars("Server Down"))],
          [description |-> Str(Chars("URGENT: slow"))]}

\* request bodies of main_dynamic.py's POST /api/tickets: priority and
\* category are present when the caller supplies them
TicketCreates ==
    {[title |-> Chars("Server Down"), description |-> Chars("need help")],
     [title |-> Chars("hello"), description |-> Chars(""),
      priority |-> "CRITICAL", category |-> "Hardware"]}

\* request bodies of api/routes/tickets.py's POST /: priority and category
\* are None unless the caller supplies them
RoutesTicketCreates ==
    {[title |-> Chars(t), description |-> Chars(""), priority |-> p, category |-> c] :
        t \in {"Server Down", "hello"},
        p \in {None, Str("low")},
        c \in {None, Str("hardware_issue")}}

NextAuto ==
    \/ \E td \in AutoTicketDatas, db_ok \in BOOLEAN : AutoTriageTicket(td, db_ok)
    \/ \E body \in TicketCreates, db \in {"ok", "flaky", "down"} :
          CreateTicket(body, "u1", db)
    \/ Tick

\* AutoTriageService with its database and clock
SpecAuto == Init /\ [][NextAuto]_vars

NextCreate ==
    \/ \E ticket_data \in RoutesTicketCreates, db_ok \in BOOLEAN :
          RoutesCreateTicket(ticket_data, 1, db_ok)
    \/ \E body \in TicketCreates, db \in {"ok", "flaky", "down"} :
          CreateTicket(body, "u1", db)

\* the two ticket-creation handlers
SpecCreate == InitCreate /\ [][NextCreate]_vars

\* ticket_data dicts used with the preloaded databases
AssignTicketDatas ==
    {[title |-> Str(Chars(x[1])), description |-> Str(Chars(x[2]))] :
        x \in {<<"hello", "">>, <<"Server Down", "need help">>,
               <<"slow password", "">>, <<"urgent update", "">>}}
    \cup {[title |-> None, description |-> Str(Chars("Server Down"))]}

NextAssign ==
    \/ \E td \in AssignTicketDatas, db_ok \in BOOLEAN : AutoTriageTicket(td, db_ok)
    \/ \E body \in TicketCreates, db \in {"ok", "flaky", "down"} :
          CreateTicket(body, "u1", db)

\* AutoTriageService over databases with loaded and inactive agents
SpecAssign == InitAssign /\ [][NextAssign]_vars

\* request bodies used with the SLA scan
SlaTicketCreates ==
    TicketCreates
    \cup {[title |-> Chars("urgent update"), description |-> Chars("")],
          [title |-> Chars("slow password"), description |-> Chars("")]}

NextSla ==
    \/ \E body \in SlaTicketCreates, db \in {"ok", "flaky", "down"} :
          CreateTicket(body, "u1", db)
    \/ \E db \in {"ok", "flaky", "down"}, failed \in SUBSET (1..Len(tickets)) :
          CheckSlaViolations(db, failed)
    \/ Tick

\* ticket creation followed by the periodic SLA scans
SpecSla == Init /\ [][NextSla]_vars

NextRace ==
    \/ \E r \in CreateRequests, body \in TicketCreates, db \in {"ok", "flaky", "down"} :
          CreateTicketTriage(r, body, "u1", db)
    \/ \E r \in CreateRequests : CreateTicketStore(r)

\* ticket creations of main_dynamic.py running concurrently
SpecRace == InitRace /\ [][NextRace]_vars

NextScan ==
    \/ \E db \in {"ok", "flaky", "down"}, failed \in SUBSET (1..Len(tickets)) :
          CheckSlaViolations(db, failed)
    \/ Tick

\* the periodic SLA scans over a database that already holds tickets
SpecScan == InitScan /\ [][NextScan]_vars

\* a scan in which every query succeeds for the i-th ticket
ScanHandles(i) ==
    \E failed \in SUBSET (1..Len(tickets)) :
        i \notin failed /\ CheckSlaViolations("ok", failed)

\* start_sla_monitoring keeps running its loop, and for every ticket the
\* database answers the scan's queries again and again
SpecScanFair ==
    /\ InitScan
    /\ [][NextScan]_vars
    /\ \A i \in 1..Len(ScanTickets) : WF_vars(ScanHandles(i))

NextSimpleML ==
    \E x \in Texts, variation \in SM_Variations :
        SimpleClassifyTicket(x[1], x[2], variation)

\* SimpleMLService called with any sequence of requests
SpecSimpleML == Init /\ [][NextSimpleML]_vars

NextTriage == \E x \in Texts : TriageTicket(x[1], x[2])

\* TicketTriageService called with any sequence of requests
SpecTriage == Init /\ [][NextTriage]_vars


NextServices ==
    \/ \E x \in Texts : TriageTicket(x[1], x[2])
    \/ \E td \in AutoTicketDatas, db_ok \in BOOLEAN : AutoTriageTicket(td, db_ok)

\* the two triage services called with any requests, in any order
SpecServices == Init /\ [][NextServices]_vars


(***************************************************************************)
(* Properties                                                              *)
(***************************************************************************)

IsTTCall == call.op = "TicketTriageService.triage_ticket"

IsATCall == call.op = "AutoTriageService.triage_ticket"

\* the text TicketTriageService scored in the last call
TTContent == Lower(call.title \o Chars(" ") \o call.description)

\* ticket_data.get(key, '')
FieldOf(ticket_data, key) ==
    IF key \in DOMAIN ticket_data THEN ticket_data[key] ELSE Str(<<>>)

\* the last call of AutoTriageService.triage_ticket got texts for both fields
ATWellFormed ==
    /\ IsStr(FieldOf(call.ticket_data, "title"))
    /\ IsStr(FieldOf(call.ticket_data, "description"))

\* the text AutoTriageService scored in the last call
ATContent ==
    Lower(FieldOf(call.ticket_data, "title").v \o Chars(" ")
          \o FieldOf(call.ticket_data, "description").v)

\* C1: a text that contains a CRITICAL keyword is triaged CRITICAL by both
\* services, whatever HIGH, MEDIUM or LOW keywords it also contains.
C1_CriticalKeywordWins ==
    /\ (IsTTCall /\ AnyMatch(TT_PriorityKeywords["critical"], TTContent))
          => call.ret.priority = "critical"
    /\ (IsATCall /\ ATWellFormed /\ AnyMatch(AT_PriorityKeywords["CRITICAL"], ATContent))
          => call.ret.priority = "CRITICAL"

\* "urgent update": a CRITICAL keyword next to a LOW keyword
C1_Witness ==
    /\ IsTTCall
    /\ call.title = Chars("urgent update")
    /\ AnyMatch(TT_PriorityKeywords["low"], TTContent)
    /\ call.ret.priority = "critical"

\* the highest level, in the order CRITICAL > HIGH > MEDIUM > LOW, with a
\* keyword in the text; MEDIUM when no level has one
TT_ordered_priority(content) ==
    IF AnyMatch(TT_PriorityKeywords["critical"], content) THEN "critical"
    ELSE IF AnyMatch(TT_PriorityKeywords["high"], content) THEN "high"
    ELSE IF AnyMatch(TT_PriorityKeywords["medium"], content) THEN "medium"
    ELSE IF AnyMatch(TT_PriorityKeywords["low"], content) THEN "low"
    ELSE "medium"

\* C2: TicketTriageService returns the highest level, in the order
\* CRITICAL > HIGH > MEDIUM > LOW, that has a keyword in the text, so a text
\* with a MEDIUM and a LOW keyword (and no higher one) is MEDIUM.
C2_MediumBeforeLow ==
    IsTTCall => call.ret.priority = TT_ordered_priority(TTContent)

\* C3: empty title and description give MEDIUM, OTHER and confidence 0.5,
\* without raising.
C3_EmptyInputDefaults ==
    (IsTTCall /\ call.title = <<>> /\ call.description = <<>>)
        => /\ ~call.raised
           /\ call.ret = [priority |-> "medium", category |-> "other",
                          confidence_score |-> 50]

C3_Witness ==
    IsTTCall /\ call.title = <<>> /\ call.description = <<>> /\ ~call.raised

\* the text has no keyword of any priority set of AutoTriageService
ATNoPriorityKeyword ==
    \A level \in DOMAIN AT_PriorityKeywords :
        ~AnyMatch(AT_PriorityKeywords[level], ATContent)

\* C4: in AutoTriageService.triage_ticket a text without any priority
\* keyword gets priority MEDIUM and an SLA deadline 24 hours from now.
C4_NoKeywordIsMedium ==
    (IsATCall /\ ATWellFormed /\ ATNoPriorityKeyword)
        => /\ call.ret.priority = "MEDIUM"
           /\ call.ret.sla_deadline = call.at + 24

\* C5: the confidence of TicketTriageService.triage_ticket is at least 0.5
\* and at most 1.0 for every input.
C5_ConfidenceRange ==
    IsTTCall => /\ call.ret.confidence_score >= 50
                /\ call.ret.confidence_score <= 100

\* the text with every keyword of every table reaches the upper end
C5_Witness ==
    /\ IsTTCall
    /\ call.title = AllKeywordsText
    /\ call.ret.confidence_score = 100

\* C6: calls of TicketTriageService.triage_ticket with the same title and
\* description return the same result whatever was called in between, and
\* the keyword tables stay as constructed.
C6_HistoryIndependent ==
    /\ \A p \in Probes : \A i, j \in 1..Len(tt_seen[p]) : tt_seen[p][i] = tt_seen[p][j]
    /\ tt_priority_keywords = TT_PriorityKeywords
    /\ tt_category_keywords = TT_CategoryKeywords

\* a probe was triaged twice and a call with another input came later
C6_Witness ==
    /\ \E p \in Probes : Len(tt_seen[p]) = MaxSeen
    /\ IsTTCall
    /\ <<call.title, call.description>> \notin Probes

\* the number of keywords of the i-th category contained in the text
TTScore(i) == CountMatches(TT_CategoryKeywords[i].keywords, TTContent)

\* C7: _determine_category returns the category with the most keywords in
\* the text, the first declared one among tied categories, and OTHER when
\* every category scores 0.
C7_CategoryByHighestCount ==
    IsTTCall =>
        IF \A i \in 1..Len(TT_CategoryKeywords) : TTScore(i) = 0
        THEN call.ret.category = "other"
        ELSE \E i \in 1..Len(TT_CategoryKeywords) :
                /\ call.ret.category = TT_CategoryKeywords[i].category
                /\ \A j \in 1..Len(TT_CategoryKeywords) : TTScore(j) <= TTScore(i)
                /\ \A j \in 1..(i - 1) : TTScore(j) < TTScore(i)

\* "slow password": performance_issue and password_reset both score 1
C7_Witness ==
    /\ IsTTCall
    /\ call.title = Chars("slow password") /\ call.description = <<>>
    /\ TTScore(2) = 1 /\ TTScore(3) = 1
    /\ call.ret.category = "performance_issue"

\* the call produced a result of AutoTriageService.triage_ticket
HasATResult ==
    \/ IsATCall
    \/ call.op = "create_ticket" /\ call.status = 200

\* C8: every result of AutoTriageService.triage_ticket, the fallback
\* included, has sla_deadline = time of the call + the SLA hours of the
\* priority in the result (CRITICAL 1, HIGH 4, MEDIUM 24, LOW 72).
C8_SlaDeadlineMatchesPriority ==
    HasATResult =>
        call.ret.sla_deadline =
            call.at + [CRITICAL |-> 1, HIGH |-> 4, MEDIUM |-> 24, LOW |-> 72][call.ret.priority]

\* a fallback result computed after the clock has advanced
C8_Witness ==
    /\ IsATCall /\ call.caught
    /\ call.at = 1
    /\ call.ret.sla_deadline = 25

\* C9: escalation_level is 1 exactly when the text has an escalation
\* keyword or the priority is CRITICAL; a HIGH priority alone gives 0.
C9_EscalationRule ==
    (IsATCall /\ ~call.caught) =>
        /\ call.ret.escalation_level \in {0, 1}
        /\ call.ret.escalation_level = 1
              <=> \/ AnyMatch(AT_EscalationKeywords, ATContent)
                  \/ call.ret.priority = "CRITICAL"

C9_Witness ==
    /\ IsATCall /\ ~call.caught
    /\ call.ret.priority = "HIGH"
    /\ call.ret.escalation_level = 0

\* C10: AutoTriageService.triage_ticket never raises; when scoring raises
\* (a title or description that is not a str) the call returns the default
\* result: MEDIUM, the default category, escalation 0, no assignee,
\* auto_triaged false.
C10_NeverRaises ==
    IsATCall =>
        /\ ~call.raised
        /\ ~ATWellFormed => call.caught
        /\ call.caught =>
              /\ call.ret.priority = "MEDIUM"
              /\ call.ret.category = "General"
              /\ call.ret.escalation_level = 0
              /\ call.ret.assigned_to = None
              /\ call.ret.auto_triaged = FALSE

C10_Witness ==
    /\ IsATCall
    /\ FieldOf(call.ticket_data, "title") = None
    /\ call.caught /\ ~call.raised

IsRoutesCreate == call.op = "tickets.create_ticket"

IsCreate == call.op = "create_ticket"

C12_ExplicitValuesPersisted ==
    /\ (IsRoutesCreate /\ call.status = 200) =>
           LET triage_result ==
                   TT_triage_ticket(tt_priority_keywords, tt_category_keywords,
                                    call.ticket_data.title, call.ticket_data.description)
               stored == rt_tickets[Len(rt_tickets)]
           IN  /\ stored.priority = IF call.ticket_data.priority # None
                                    THEN call.ticket_data.priority.v
                                    ELSE triage_result.priority
               /\ stored.category = IF call.ticket_data.category # None
                                    THEN call.ticket_data.category.v
                                    ELSE triage_result.category
    /\ (IsCreate /\ call.status = 200) =>
           LET stored == tickets[Len(tickets)]
           IN  /\ stored.priority = IF "priority" \in DOMAIN call.body
                                    THEN call.body.priority
                                    ELSE call.ret.priority
               /\ stored.category = IF "category" \in DOMAIN call.body
                                    THEN call.body.category
                                    ELSE call.ret.category

\* the active agents, and those of them below the capacity ceiling
ActiveAgents == {i \in 1..Len(users) : users[i].role = "AGENT" /\ users[i].isActive}

FreeAgents ==
    {i \in ActiveAgents : AT_current_tickets(tickets, users[i].id) < AT_MaxTicketsPerAgent}

\* C13: when the agent lookup succeeds and some active agent is below the
\* ceiling of 5, the assignee is one of these agents and none of them has
\* fewer OPEN/IN_PROGRESS tickets
C13_LeastLoadedAgent ==
    (IsATCall /\ ~call.caught /\ call.db_ok /\ FreeAgents # {}) =>
        \E i \in FreeAgents :
            /\ call.ret.assigned_to = Str(users[i].id)
            /\ \A j \in FreeAgents :
                   AT_current_tickets(tickets, users[i].id)
                       <= AT_current_tickets(tickets, users[j].id)

\* C14: the assignee is an active agent with fewer than 5 OPEN/IN_PROGRESS
\* tickets; with no active agent, with every active agent at the ceiling or
\* with a failing lookup there is no assignee, and priority, category, SLA
\* deadline and escalation are the computed ones
C14_CapacityCeiling ==
    IsATCall =>
        /\ call.ret.assigned_to # None =>
               \E i \in ActiveAgents :
                  /\ call.ret.assigned_to = Str(users[i].id)
                  /\ AT_current_tickets(tickets, users[i].id) < AT_MaxTicketsPerAgent
        /\ (ATWellFormed /\ (ActiveAgents = {} \/ FreeAgents = {} \/ ~call.db_ok)) =>
               LET priority == AT_determine_priority(at_priority_keywords, ATContent)
               IN  /\ ~call.raised /\ ~call.caught
                   /\ call.ret.assigned_to = None
                   /\ call.ret.auto_triaged
                   /\ call.ret.priority = priority
                   /\ call.ret.category =
                          AT_determine_category(at_category_keywords, ATContent)
                   /\ call.ret.sla_deadline = call.at + at_sla_times[priority]
                   /\ call.ret.escalation_level =
                          AT_determine_escalation(ATContent, priority)

\* every active agent is at the ceiling: no assignee, the priority is computed
C14_Witness ==
    /\ IsATCall /\ call.db_ok
    /\ ActiveAgents # {} /\ FreeAgents = {}
    /\ \E i \in ActiveAgents :
          AT_current_tickets(tickets, users[i].id) = AT_MaxTicketsPerAgent
    /\ call.ret.assigned_to = None
    /\ call.ret.priority = "CRITICAL"

\* the last call of AutoTriageService.triage_ticket scored a text holding
\* both "urgent" and "slow"
ATUrgentAndSlow ==
    /\ IsATCall /\ ATWellFormed
    /\ Contains(Chars("urgent"), ATContent)
    /\ Contains(Chars("slow"), ATContent)

\* C15 as stated: a text with "urgent" and "slow" gets priority HIGH and
\* escalation level 1
C15_UrgentSlowIsHigh ==
    ATUrgentAndSlow =>
        call.ret.priority = "HIGH" /\ call.ret.escalation_level = 1

\* C15: a text with "urgent" and "slow" gets priority CRITICAL, "urgent"
\* being a CRITICAL keyword too, and escalation level 1
C15_UrgentSlowIsCritical ==
    ATUrgentAndSlow =>
        call.ret.priority = "CRITICAL" /\ call.ret.escalation_level = 1

C15_Witness ==
    /\ ATUrgentAndSlow
    /\ call.ticket_data = [description |-> Str(Chars("URGENT: slow"))]
    /\ call.ret.escalation_level = 1

C17_TriageReadsOnly ==
    [][(call' # call /\ call'.op = "AutoTriageService.triage_ticket")
          => UNCHANGED <<users, tickets, slaevents, alerts>>]_vars

\* a call that counted a stored ticket of the agent it looked up
C17_Witness ==
    /\ IsATCall /\ call.db_ok /\ ~call.caught
    /\ tickets # <<>>
    /\ \E i \in ActiveAgents : AT_current_tickets(tickets, users[i].id) > 0
    /\ call.ret.assigned_to # None

\* keyword-match count of the i-th category of AutoTriageService in the
\* text of the last call
ATScore(i) == CountMatches(at_category_keywords[i].keywords, ATContent)

\* the categories _determine_category scores: all but General
ATScored == {i \in 1..Len(at_category_keywords) :
                at_category_keywords[i].category # "General"}

\* C18: the category AutoTriageService returns matches at least as many
\* keywords as every other category, and it is General only when no
\* category matches any keyword
C18_CategoryByTally ==
    (IsATCall /\ ATWellFormed /\ ~call.caught) =>
        /\ call.ret.category = "General" <=> \A j \in ATScored : ATScore(j) = 0
        /\ call.ret.category # "General" =>
               \E i \in ATScored :
                  /\ at_category_keywords[i].category = call.ret.category
                  /\ \A j \in ATScored : ATScore(j) <= ATScore(i)

IsSMCall == call.op = "SimpleMLService.classify_ticket"

\* the text SimpleMLService scored in the last call
SMContent == Lower(call.title \o Chars(" ") \o call.description)

\* C19: a text holding no category keyword is classified 'other', and a
\* text holding no priority keyword gets priority 'medium'
C19_NoSignalDefaults ==
    IsSMCall =>
        /\ (\A i \in 1..Len(SM_CategoryKeywords) :
                ~AnyMatch(SM_CategoryKeywords[i].keywords, SMContent))
              => call.ret.category = "other"
        /\ (\A i \in 1..Len(SM_PriorityKeywords) :
                ~AnyMatch(SM_PriorityKeywords[i].keywords, SMContent))
              => call.ret.priority = "medium"

\* p and c of the last call of TicketTriageService.triage_ticket: the
\* keywords of the returned priority's list, and of the returned category's
\* list, contained in the text (OTHER has no list)
TTPriorityMatches == CountMatches(tt_priority_keywords[call.ret.priority], TTContent)

TTCategoryMatches ==
    IF call.ret.category = "other" THEN 0
    ELSE LET i == CHOOSE i \in 1..Len(tt_category_keywords) :
                     tt_category_keywords[i].category = call.ret.category
         IN  TTScore(i)

\* C20: the confidence, in hundredths, is 50 + min(30, 10 p) + min(20, 5 c),
\* and it is 50 exactly when p = 0 and c = 0
C20_ConfidenceFormula ==
    IsTTCall =>
        /\ call.ret.confidence_score =
               50 + Min(30, 10 * TTPriorityMatches) + Min(20, 5 * TTCategoryMatches)
        /\ call.ret.confidence_score = 50 <=>
               (TTPriorityMatches = 0 /\ TTCategoryMatches = 0)

\* two keywords of the priority and two of the category: 0.5 + 0.2 + 0.1
C20_Witness ==
    /\ IsTTCall
    /\ TTPriorityMatches = 2 /\ TTCategoryMatches = 2
    /\ call.ret.confidence_score = 80

\* the other letter case of an ASCII character
SwapCase(c) ==
    IF c \in DOMAIN UpperToLower THEN UpperToLower[c]
    ELSE IF \E u \in DOMAIN UpperToLower : UpperToLower[u] = c
         THEN CHOOSE u \in DOMAIN UpperToLower : UpperToLower[u] = c
         ELSE c

\* the text s with the letter case of its i-th character changed
SwapCaseAt(s, i) == [s EXCEPT ![i] = SwapCase(@)]

C22_ScanFrame ==
    [][CheckSlaViolations("ok", {}) =>
          /\ Len(tickets') = Len(tickets)
          /\ \A i \in 1..Len(tickets) :
                IF /\ tickets[i].status \in {"OPEN", "IN_PROGRESS"}
                   /\ tickets[i].slaDeadline <= now
                THEN /\ tickets'[i].priority = "CRITICAL"
                     /\ tickets'[i].escalationLevel = tickets[i].escalationLevel + 1
                ELSE tickets'[i] = tickets[i]]_vars

\* the first error-free scan at hour 1: both overdue tickets are escalated,
\* the resolved one and the one due later are as stored
C22_Witness ==
    /\ call.op = "check_sla_violations" /\ call.db = "ok" /\ call.failed = {}
    /\ call.violating = 2
    /\ Len(tickets) = Len(ScanTickets)
    /\ tickets[1].priority = "CRITICAL" /\ tickets[1].escalationLevel = 1
    /\ tickets[3].priority = "CRITICAL" /\ tickets[3].escalationLevel = 2
    /\ tickets[2] = ScanTickets[2]
    /\ tickets[4] = ScanTickets[4]

\* the i-th ticket is OPEN or IN_PROGRESS and past its SLA deadline
Overdue(i) ==
    /\ i <= Len(tickets)
    /\ tickets[i].status \in {"OPEN", "IN_PROGRESS"}
    /\ tickets[i].slaDeadline <= now

\* C23: under the fairness of SpecScanFair, a ticket that is OPEN or
\* IN_PROGRESS past its SLA deadline eventually has priority CRITICAL,
\* whatever scans failed before and whichever other tickets fail
C23_EventuallyCritical ==
    \A i \in 1..Len(ScanTickets) :
        Overdue(i) ~> (tickets[i].priority = "CRITICAL")

\* the first ticket was escalated by a scan in which the update of the
\* third one raised
C23_Witness ==
    /\ call.op = "check_sla_violations" /\ call.db = "ok" /\ call.failed = {3}
    /\ tickets[1].priority = "CRITICAL"
    /\ tickets[3].priority = "HIGH" /\ Overdue(3)

\* C24: whatever creations run together, no active agent holds more than 5
\* OPEN/IN_PROGRESS tickets
C24_CeilingUnderConcurrency ==
    \A i \in ActiveAgents :
        AT_current_tickets(tickets, users[i].id) <= AT_MaxTicketsPerAgent

(***************************************************************************)
(* services/mfa_service.py: verification codes                             *)
(***************************************************************************)

\* "if time.time() - verification_data['timestamp'] > 600"
MFA_ExpirySeconds == 600

\* "if verification_data['attempts'] >= 3"
MFA_MaxAttempts == 3

\* the 6-digit codes secrets.randbelow produces
MFA_Codes == {"111111", "222222"}

\* as MFA_verify_code, refusing only above the maximum
MFA_verify_code_lenient(codes, user_id, code, t) ==
    IF codes[user_id] = None
    THEN [codes |-> codes, success |-> FALSE, message |-> "No verification code found"]
    ELSE LET verification_data == codes[user_id]
         IN  IF t - verification_data.timestamp > MFA_ExpirySeconds
             THEN [codes |-> [codes EXCEPT ![user_id] = None], success |-> FALSE,
                   message |-> "Verification code expired"]
             ELSE IF verification_data.attempts > MFA_MaxAttempts
             THEN [codes |-> [codes EXCEPT ![user_id] = None], success |-> FALSE,
                   message |-> "Too many failed attempts"]
             ELSE IF verification_data.code = code
             THEN [codes |-> [codes EXCEPT ![user_id].verified = TRUE], success |-> TRUE,
                   message |-> "Code verified successfully"]
             ELSE [codes |-> [codes EXCEPT ![user_id].attempts = @ + 1], success |-> FALSE,
                   message |-> "Invalid code"]

\* MFAService.verify_code(user_id, code) at clock t: the dictionary it leaves
\* and the answer ("del" leaves no entry, modelled as None)
MFA_verify_code(codes, user_id, code, t) ==
    IF codes[user_id] = None
    THEN [codes |-> codes, success |-> FALSE, message |-> "No verification code found"]
    ELSE LET verification_data == codes[user_id]
         IN  IF t - verification_data.timestamp > MFA_ExpirySeconds
             THEN [codes |-> [codes EXCEPT ![user_id] = None], success |-> FALSE,
                   message |-> "Verification code expired"]
             ELSE IF verification_data.attempts >= MFA_MaxAttempts
             THEN [codes |-> [codes EXCEPT ![user_id] = None], success |-> FALSE,
                   message |-> "Too many failed attempts"]
             ELSE IF verification_data.code = code
             THEN [codes |-> [codes EXCEPT ![user_id].verified = TRUE], success |-> TRUE,
                   message |-> "Code verified successfully"]
             ELSE [codes |-> [codes EXCEPT ![user_id].attempts = @ + 1], success |-> FALSE,
                   message |-> "Invalid code"]

\* the variables the verification-code service leaves alone
MFA_Frame ==
    /\ UNCHANGED at_vars
    /\ UNCHANGED tt_vars
    /\ UNCHANGED rt_vars
    /\ UNCHANGED <<create_vars, am_vars, rm_vars, cm_vars>>

\* MFAService.generate_verification_code: an entry is stored for user_id
\* and the code is sent
GenerateVerificationCode(user_id, code) ==
    /\ mfa_codes' = [mfa_codes EXCEPT ![user_id] =
                        [code |-> code, method |-> "email", timestamp |-> mfa_now,
                         attempts |-> 0, verified |-> FALSE]]
    /\ mfa_sent' = [mfa_sent EXCEPT ![user_id] = [code |-> code, at |-> mfa_now, wrong |-> 0]]
    /\ call' = [op |-> "MFAService.generate_verification_code", user_id |-> user_id,
                code |-> code, at |-> mfa_now]
    /\ UNCHANGED mfa_now
    /\ MFA_Frame

\* user_id submits a code
VerifyCode(user_id, code) ==
    LET out == MFA_verify_code(mfa_codes, user_id, code, mfa_now)
        sent == mfa_sent[user_id]
        is_wrong == sent # None /\ sent.code # code
    IN  /\ is_wrong => sent.wrong < MaxWrong
        /\ mfa_codes' = out.codes
        /\ mfa_sent' = IF is_wrong THEN [mfa_sent EXCEPT ![user_id].wrong = @ + 1]
                       ELSE mfa_sent
        /\ call' = [op |-> "MFAService.verify_code", user_id |-> user_id, code |-> code,
                    at |-> mfa_now, sent |-> sent, success |-> out.success,
                    message |-> out.message]
        /\ UNCHANGED mfa_now
        /\ MFA_Frame

\* the clock advances by half the expiry time
MfaTick ==
    /\ mfa_now < MaxMfaTicks * (MFA_ExpirySeconds \div 2)
    /\ mfa_now' = mfa_now + (MFA_ExpirySeconds \div 2)
    /\ call' = [op |-> "time.time"]
    /\ UNCHANGED <<mfa_codes, mfa_sent>>
    /\ MFA_Frame

NextMfa ==
    \/ \E u \in MfaUsers, code \in MFA_Codes : GenerateVerificationCode(u, code)
    \/ \E u \in MfaUsers, code \in MFA_Codes : VerifyCode(u, code)
    \/ MfaTick

\* verification codes generated, submitted and expiring
SpecMfa == Init /\ [][NextMfa]_vars

\* C25: verify_code succeeds only with fewer than 3 wrong codes submitted
\* before it for the generated code and at most 600 seconds after its
\* generation, so after three wrong codes every call fails, and the
\* stored attempts counter never exceeds 3
C25_AttemptsAndExpiry ==
    /\ (call.op = "MFAService.verify_code" /\ call.sent # None /\ call.success) =>
          /\ call.sent.wrong < 3
          /\ call.at - call.sent.at <= 600
          /\ call.code = call.sent.code
    /\ (call.op = "MFAService.verify_code" /\ call.sent = None) => ~call.success
    /\ \A u \in MfaUsers : mfa_codes[u] # None => mfa_codes[u].attempts <= 3

\* the correct code is refused after three wrong ones, within the 600 seconds
C25_Witness ==
    /\ call.op = "MFAService.verify_code"
    /\ call.sent # None
    /\ ~call.success
    /\ call.code = call.sent.code
    /\ call.sent.wrong = 3
    /\ call.at - call.sent.at <= 600

(***************************************************************************)
(* services/alerting.py: the life cycle of an alert                        *)
(***************************************************************************)

\* a datetime column holding hour h
DateTime(h) == [t |-> "datetime", v |-> h]

\* db.query(Alert).filter(Alert.id == alert_id).first(): 0 when there is none
AM_first(rows, alert_id) ==
    IF alert_id \in 1..Len(rows) THEN alert_id ELSE 0

\* AlertManager.acknowledge_alert(alert_id, user_id) at hour t; the commit
\* succeeds or raises, and a session closed without commit changes nothing
AM_acknowledge_alert(rows, alert_id, t, commit_ok) ==
    LET i == AM_first(rows, alert_id)
    IN  IF i # 0 /\ rows[i].status = "active"
        THEN IF commit_ok
             THEN [rows |-> [rows EXCEPT ![i].status = "acknowledged",
                                         ![i].acknowledged_at = DateTime(t)],
                   ret |-> TRUE]
             ELSE [rows |-> rows, ret |-> FALSE]
        ELSE [rows |-> rows, ret |-> FALSE]

\* as AM_resolve_alert, for an alert in any status
AM_resolve_alert_any(rows, alert_id, t, commit_ok) ==
    LET i == AM_first(rows, alert_id)
    IN  IF i # 0
        THEN IF commit_ok
             THEN [rows |-> [rows EXCEPT ![i].status = "resolved",
                                         ![i].resolved_at = DateTime(t)],
                   ret |-> TRUE]
             ELSE [rows |-> rows, ret |-> FALSE]
        ELSE [rows |-> rows, ret |-> FALSE]

\* AlertManager.resolve_alert(alert_id, user_id) at hour t
AM_resolve_alert(rows, alert_id, t, commit_ok) ==
    LET i == AM_first(rows, alert_id)
    IN  IF i # 0 /\ rows[i].status \in {"active", "acknowledged"}
        THEN IF commit_ok
             THEN [rows |-> [rows EXCEPT ![i].status = "resolved",
                                         ![i].resolved_at = DateTime(t)],
                   ret |-> TRUE]
             ELSE [rows |-> rows, ret |-> FALSE]
        ELSE [rows |-> rows, ret |-> FALSE]

\* the variables AlertManager leaves alone
AM_Frame ==
    /\ UNCHANGED at_vars
    /\ UNCHANGED tt_vars
    /\ UNCHANGED rt_vars
    /\ UNCHANGED <<create_vars, mfa_vars, rm_vars, cm_vars>>

\* AlertManager.create_alert: commits a row with status ACTIVE and both
\* timestamps NULL and returns its id, or None (0) when the commit raised
CreateAlert(commit_ok) ==
    /\ Len(am_alerts) < MaxAlerts
    /\ am_alerts' = IF commit_ok
                    THEN Append(am_alerts,
                                [id |-> Len(am_alerts) + 1, status |-> "active",
                                 triggered_at |-> DateTime(now),
                                 acknowledged_at |-> None, resolved_at |-> None])
                    ELSE am_alerts
    /\ call' = [op |-> "AlertManager.create_alert", at |-> now, commit_ok |-> commit_ok,
                ret |-> IF commit_ok THEN Len(am_alerts) + 1 ELSE 0]
    /\ AM_Frame

\* AlertManager.acknowledge_alert
AcknowledgeAlert(alert_id, commit_ok) ==
    LET out == AM_acknowledge_alert(am_alerts, alert_id, now, commit_ok)
    IN  /\ am_alerts' = out.rows
        /\ call' = [op |-> "AlertManager.acknowledge_alert", alert_id |-> alert_id,
                    at |-> now, commit_ok |-> commit_ok, ret |-> out.ret]
        /\ AM_Frame

\* AlertManager.resolve_alert
ResolveAlert(alert_id, commit_ok) ==
    LET out == AM_resolve_alert(am_alerts, alert_id, now, commit_ok)
    IN  /\ am_alerts' = out.rows
        /\ call' = [op |-> "AlertManager.resolve_alert", alert_id |-> alert_id,
                    at |-> now, commit_ok |-> commit_ok, ret |-> out.ret]
        /\ AM_Frame

NextAlerts ==
    \/ \E commit_ok \in BOOLEAN : CreateAlert(commit_ok)
    \/ \E alert_id \in 1..MaxAlerts, commit_ok \in BOOLEAN : AcknowledgeAlert(alert_id, commit_ok)
    \/ \E alert_id \in 1..MaxAlerts, commit_ok \in BOOLEAN : ResolveAlert(alert_id, commit_ok)
    \/ Tick

\* alerts created, acknowledged and resolved as the hours pass
SpecAlerts == Init /\ [][NextAlerts]_vars

\* C26: an alert's status only moves ACTIVE -> ACKNOWLEDGED -> RESOLVED or
\* ACTIVE -> RESOLVED; acknowledge_alert returns True only on an ACTIVE alert,
\* resolve_alert only on an ACTIVE or ACKNOWLEDGED one; a RESOLVED alert never
\* changes again; a call that returns False changes no status or timestamp
C26_StatusForward ==
    [][\A i \in 1..Len(am_alerts) :
          LET a == am_alerts[i]
              b == am_alerts'[i]
              called(op) == call' # call /\ call'.op = op /\ call'.alert_id = i
          IN  /\ Len(am_alerts') >= Len(am_alerts)
              /\ b.status # a.status =>
                    <<a.status, b.status>> \in {<<"active", "acknowledged">>,
                                                <<"active", "resolved">>,
                                                <<"acknowledged", "resolved">>}
              /\ a.status = "resolved" => b = a
              /\ (called("AlertManager.acknowledge_alert") /\ call'.ret) =>
                    a.status = "active" /\ b.status = "acknowledged"
              /\ (called("AlertManager.resolve_alert") /\ call'.ret) =>
                    a.status \in {"active", "acknowledged"} /\ b.status = "resolved"
              /\ (call'.op \in {"AlertManager.acknowledge_alert", "AlertManager.resolve_alert"}
                    /\ ~call'.ret) => b = a
      ]_vars

\* resolve_alert has just returned False for an alert that was acknowledged at
\* one hour and resolved at a later one
C26_Witness ==
    /\ call.op = "AlertManager.resolve_alert"
    /\ call.commit_ok
    /\ ~call.ret
    /\ call.alert_id \in 1..Len(am_alerts)
    /\ am_alerts[call.alert_id].status = "resolved"
    /\ am_alerts[call.alert_id].acknowledged_at # None
    /\ am_alerts[call.alert_id].resolved_at.v < call.at

(***************************************************************************)
(* services/realtime_monitor.py: the monitoring task                       *)
(*                                                                         *)
(* A task is "running" from create_task until it ends or is cancelled,     *)
(* "cancelling" between Task.cancel() and the delivery of CancelledError   *)
(* at the await it is suspended in, and "done" afterwards.                 *)
(***************************************************************************)

\* CancelledError thrown into _monitor_loop is caught by its "except Exception"
RM_on_cancelled_caught(monitoring) == "running"

\* CancelledError thrown into _monitor_loop: not an Exception on the Python
\* setup.py requires (3.8 or higher), so no handler of the file catches it and
\* the task ends
RM_on_cancelled(monitoring) == "done"

\* the variables RealtimeMonitor leaves alone
RM_Frame ==
    /\ UNCHANGED at_vars
    /\ UNCHANGED tt_vars
    /\ UNCHANGED rt_vars
    /\ UNCHANGED <<create_vars, mfa_vars, am_vars, cm_vars>>

\* RealtimeMonitor.start_monitoring(): it has no await, so it runs in one step
StartMonitoring ==
    /\ IF rm_monitoring
       THEN /\ UNCHANGED rm_vars
            /\ call' = [op |-> "RealtimeMonitor.start_monitoring",
                        was_monitoring |-> TRUE, created |-> 0]
       ELSE /\ Len(rm_tasks) < MaxTasks
            /\ rm_monitoring' = TRUE
            /\ rm_tasks' = Append(rm_tasks, "running")
            /\ rm_monitor_task' = Len(rm_tasks) + 1
            /\ UNCHANGED rm_stops
            /\ call' = [op |-> "RealtimeMonitor.start_monitoring",
                        was_monitoring |-> FALSE, created |-> Len(rm_tasks) + 1]
    /\ RM_Frame

\* RealtimeMonitor.stop_monitoring() called by c, up to "await self.monitor_task";
\* Task.cancel() requests the cancellation of a task that has not ended;
\* without a task the call returns at once
StopMonitoring(c) ==
    /\ rm_stops[c] = 0
    /\ rm_monitoring' = FALSE
    /\ IF rm_monitor_task # 0
       THEN /\ rm_tasks' = [rm_tasks EXCEPT ![rm_monitor_task] =
                                IF @ = "done" THEN "done" ELSE "cancelling"]
            /\ rm_stops' = [rm_stops EXCEPT ![c] = rm_monitor_task]
            /\ call' = [op |-> "RealtimeMonitor.stop_monitoring.cancel", caller |-> c,
                        cancelled |-> rm_monitor_task]
       ELSE /\ UNCHANGED <<rm_tasks, rm_stops>>
            /\ call' = [op |-> "RealtimeMonitor.stop_monitoring", caller |-> c,
                        cancelled |-> 0]
    /\ UNCHANGED rm_monitor_task
    /\ RM_Frame

\* the await of stop_monitoring ends when the awaited task has ended
StopMonitoringReturn(c) ==
    /\ rm_stops[c] # 0
    /\ rm_tasks[rm_stops[c]] = "done"
    /\ rm_stops' = [rm_stops EXCEPT ![c] = 0]
    /\ call' = [op |-> "RealtimeMonitor.stop_monitoring", caller |-> c,
                cancelled |-> rm_stops[c]]
    /\ UNCHANGED <<rm_monitoring, rm_monitor_task, rm_tasks>>
    /\ RM_Frame

\* one turn of "while self.monitoring" in task t: another round of metrics
\* (also after an Exception), or the end of the loop
MonitorLoop(t) ==
    /\ rm_tasks[t] = "running"
    /\ rm_tasks' = [rm_tasks EXCEPT ![t] = IF rm_monitoring THEN "running" ELSE "done"]
    /\ call' = [op |-> "RealtimeMonitor._monitor_loop", task |-> t,
                monitoring |-> rm_monitoring]
    /\ UNCHANGED <<rm_monitoring, rm_monitor_task, rm_stops>>
    /\ RM_Frame

\* the event loop delivers CancelledError to task t
MonitorLoopCancelled(t) ==
    /\ rm_tasks[t] = "cancelling"
    /\ rm_tasks' = [rm_tasks EXCEPT ![t] = RM_on_cancelled(rm_monitoring)]
    /\ call' = [op |-> "asyncio.CancelledError", task |-> t]
    /\ UNCHANGED <<rm_monitoring, rm_monitor_task, rm_stops>>
    /\ RM_Frame

NextMonitor ==
    \/ StartMonitoring
    \/ \E c \in StopCallers : StopMonitoring(c)
    \/ \E c \in StopCallers : StopMonitoringReturn(c)
    \/ \E t \in 1..Len(rm_tasks) : MonitorLoop(t)
    \/ \E t \in 1..Len(rm_tasks) : MonitorLoopCancelled(t)

\* start_monitoring and stop_monitoring calls interleaved with the tasks
SpecMonitor == Init /\ [][NextMonitor]_vars

\* the tasks that can still run the monitoring loop
RunningTasks == {t \in 1..Len(rm_tasks) : rm_tasks[t] = "running"}

\* C27: at most one monitoring-loop task is running at a time; a
\* start_monitoring while monitoring is active creates no task; when
\* stop_monitoring has returned, the task it cancelled is not running
C27_OneMonitorTask ==
    /\ [](Cardinality(RunningTasks) <= 1)
    /\ []((call.op = "RealtimeMonitor.stop_monitoring" /\ call.cancelled # 0)
            => rm_tasks[call.cancelled] = "done")
    /\ [][(rm_monitoring /\ call' # call /\ call'.op = "RealtimeMonitor.start_monitoring")
            => rm_tasks' = rm_tasks /\ rm_monitor_task' = rm_monitor_task]_vars

\* a stop_monitoring has returned after a start_monitoring that ran while it
\* was waiting: its task has ended and the new task is the only one running
C27_Witness ==
    /\ call.op = "RealtimeMonitor.stop_monitoring"
    /\ call.cancelled # 0
    /\ rm_monitoring
    /\ rm_monitor_task # call.cancelled
    /\ RunningTasks = {rm_monitor_task}

(***************************************************************************)
(* main_dynamic.py: ConnectionManager                                      *)
(***************************************************************************)

\* the WebSocket objects
CM_WebSockets == {"w1", "w2", "w3"}

\* list.remove(x): the list without the first item equal to x
CM_remove(list, x) ==
    LET at == CHOOSE i \in 1..Len(list) : list[i] = x /\ \A j \in 1..(i - 1) : list[j] # x
    IN  SubSeq(list, 1, at - 1) \o SubSeq(list, at + 1, Len(list))

\* "for connection in self.active_connections" from position i on: the list
\* iterator takes list[i] of the list as it is now and moves to i + 1, also
\* when the body has removed an item
RECURSIVE CM_broadcast_from(_, _, _, _, _)
CM_broadcast_from(list, i, failing, attempted, received) ==
    IF i > Len(list)
    THEN [active |-> list, attempted |-> attempted, received |-> received]
    ELSE LET connection == list[i]
         IN  IF connection \in failing
             THEN CM_broadcast_from(CM_remove(list, connection), i + 1, failing,
                                    attempted \cup {connection}, received)
             ELSE CM_broadcast_from(list, i + 1, failing,
                                    attempted \cup {connection},
                                    received \cup {connection})

\* the variables ConnectionManager leaves alone
CM_Frame ==
    /\ UNCHANGED at_vars
    /\ UNCHANGED tt_vars
    /\ UNCHANGED rt_vars
    /\ UNCHANGED <<create_vars, mfa_vars, am_vars, rm_vars>>

\* ConnectionManager.connect(websocket) for a socket that is accepted once
Connect(websocket) ==
    /\ \A i \in 1..Len(cm_active) : cm_active[i] # websocket
    /\ cm_active' = Append(cm_active, websocket)
    /\ call' = [op |-> "ConnectionManager.connect", websocket |-> websocket]
    /\ CM_Frame

\* ConnectionManager.disconnect(websocket)
Disconnect(websocket) ==
    /\ cm_active' = IF \E i \in 1..Len(cm_active) : cm_active[i] = websocket
                    THEN CM_remove(cm_active, websocket)
                    ELSE cm_active
    /\ call' = [op |-> "ConnectionManager.disconnect", websocket |-> websocket]
    /\ CM_Frame

\* ConnectionManager.broadcast(message) when send_text raises on the
\* connections of failing
Broadcast(failing) ==
    LET out == CM_broadcast_from(cm_active, 1, failing, {}, {})
    IN  /\ cm_active' = out.active
        /\ call' = [op |-> "ConnectionManager.broadcast", connections |-> cm_active,
                    failing |-> failing, attempted |-> out.attempted,
                    received |-> out.received]
        /\ CM_Frame

NextConnections ==
    \/ \E w \in CM_WebSockets : Connect(w)
    \/ \E w \in CM_WebSockets : Disconnect(w)
    \/ \E failing \in SUBSET CM_WebSockets : Broadcast(failing)

\* sockets connecting, disconnecting and being broadcast to
SpecConnections == Init /\ [][NextConnections]_vars

\* C28: a broadcast tries every connection that was in active_connections
\* when it started; the failing ones are removed and all others receive the
\* message
C28_BroadcastReachesAll ==
    call.op = "ConnectionManager.broadcast" =>
        \A i \in 1..Len(call.connections) :
            LET w == call.connections[i]
            IN  /\ w \in call.attempted
                /\ w \notin call.failing => w \in call.received
                /\ w \in call.failing <=> \A j \in 1..Len(cm_active) : cm_active[j] # w

(***************************************************************************)
(* api/routes/tickets.py: reading, updating and deleting tickets           *)
(***************************************************************************)

\* a field of TicketUpdate the request body does not carry (exclude_unset)
Unset == [t |-> "unset"]

\* the users get_current_active_user can answer with
RT_Users ==
    { [id |-> 1, role |-> "CUSTOMER"], [id |-> 2, role |-> "CUSTOMER"],
      [id |-> 3, role |-> "SUPPORT_AGENT"], [id |-> 4, role |-> "ADMIN"] }

\* db.query(Ticket).filter(Ticket.id == ticket_id).first(): the row's position, 0 for None
RT_first(rows, ticket_id) ==
    IF \E i \in 1..Len(rows) : rows[i].id = ticket_id
    THEN CHOOSE i \in 1..Len(rows) : rows[i].id = ticket_id
    ELSE 0

\* as RT_may_access, without the check
RT_may_access_open(current_user, ticket) == TRUE

\* the permission check of get_ticket and update_ticket: a CUSTOMER only
\* passes on a ticket they created
RT_may_access(current_user, ticket) ==
    ~(current_user.role = "CUSTOMER" /\ ticket.created_by # current_user.id)

\* get_tickets(status=...): the rows selected (limit 100 is above any table
\* here; their order, newest first, is not kept)
RT_get_tickets(rows, status, current_user) ==
    {rows[i] : i \in {j \in 1..Len(rows) :
        /\ status # None => rows[j].status = status.v
        /\ current_user.role = "CUSTOMER" => rows[j].created_by = current_user.id}}

\* get_ticket(ticket_id)
RT_get_ticket(rows, ticket_id, current_user) ==
    LET i == RT_first(rows, ticket_id)
    IN  IF i = 0 THEN [status |-> 404, ret |-> None]
        ELSE IF ~RT_may_access(current_user, rows[i]) THEN [status |-> 403, ret |-> None]
        ELSE [status |-> 200, ret |-> rows[i]]

\* as RT_update_ticket, stamping resolved_at at every update to RESOLVED
RT_update_ticket_restamping(rows, ticket_id, ticket_update, current_user, t) ==
    LET i == RT_first(rows, ticket_id)
    IN  IF i = 0 THEN [rows |-> rows, status |-> 404, ret |-> None]
        ELSE IF ~RT_may_access(current_user, rows[i])
        THEN [rows |-> rows, status |-> 403, ret |-> None]
        ELSE IF ticket_update.title = None \/ ticket_update.status = None
        THEN [rows |-> rows, status |-> 500, ret |-> None]
        ELSE LET set == [rows[i] EXCEPT
                            !.title = IF ticket_update.title # Unset
                                      THEN ticket_update.title.v ELSE @,
                            !.status = IF ticket_update.status # Unset
                                       THEN ticket_update.status.v ELSE @]
                 ticket == IF ticket_update.status = Str("resolved")
                           THEN [set EXCEPT !.resolved_at = DateTime(t)]
                           ELSE set
             IN  [rows |-> [rows EXCEPT ![i] = ticket], status |-> 200, ret |-> ticket]

\* update_ticket(ticket_id, ticket_update) at hour t: the fields the body
\* carries are set on the row; a NULL in a NOT NULL column makes the commit
\* raise and the session roll back; resolved_at is stamped when the body
\* says RESOLVED and the row has none
RT_update_ticket(rows, ticket_id, ticket_update, current_user, t) ==
    LET i == RT_first(rows, ticket_id)
    IN  IF i = 0 THEN [rows |-> rows, status |-> 404, ret |-> None]
        ELSE IF ~RT_may_access(current_user, rows[i])
        THEN [rows |-> rows, status |-> 403, ret |-> None]
        ELSE IF ticket_update.title = None \/ ticket_update.status = None
        THEN [rows |-> rows, status |-> 500, ret |-> None]
        ELSE LET set == [rows[i] EXCEPT
                            !.title = IF ticket_update.title # Unset
                                      THEN ticket_update.title.v ELSE @,
                            !.status = IF ticket_update.status # Unset
                                       THEN ticket_update.status.v ELSE @]
                 ticket == IF ticket_update.status = Str("resolved") /\ set.resolved_at = None
                           THEN [set EXCEPT !.resolved_at = DateTime(t)]
                           ELSE set
             IN  [rows |-> [rows EXCEPT ![i] = ticket], status |-> 200, ret |-> ticket]

\* delete_ticket(ticket_id)
RT_delete_ticket(rows, ticket_id, current_user) ==
    LET i == RT_first(rows, ticket_id)
    IN  IF current_user.role # "ADMIN" THEN [rows |-> rows, status |-> 403]
        ELSE IF i = 0 THEN [rows |-> rows, status |-> 404]
        ELSE [rows |-> SubSeq(rows, 1, i - 1) \o SubSeq(rows, i + 1, Len(rows)),
              status |-> 200]

\* the variables the ticket routes leave alone
RT_Frame ==
    /\ UNCHANGED at_vars
    /\ UNCHANGED tt_vars
    /\ UNCHANGED svc_vars

\* GET /tickets/
GetTickets(status, current_user) ==
    /\ call' = [op |-> "tickets.get_tickets", filter |-> status,
                current_user |-> current_user, status |-> 200,
                rows |-> RT_get_tickets(rt_tickets, status, current_user)]
    /\ UNCHANGED rt_tickets
    /\ RT_Frame

\* GET /tickets/{ticket_id}
GetTicket(ticket_id, current_user) ==
    LET out == RT_get_ticket(rt_tickets, ticket_id, current_user)
    IN  /\ call' = [op |-> "tickets.get_ticket", ticket_id |-> ticket_id,
                    current_user |-> current_user, status |-> out.status,
                    ret |-> out.ret]
        /\ UNCHANGED rt_tickets
        /\ RT_Frame

\* PUT /tickets/{ticket_id}
UpdateTicket(ticket_id, ticket_update, current_user) ==
    LET out == RT_update_ticket(rt_tickets, ticket_id, ticket_update, current_user, now)
    IN  /\ rt_tickets' = out.rows
        /\ call' = [op |-> "tickets.update_ticket", ticket_id |-> ticket_id,
                    ticket_update |-> ticket_update, current_user |-> current_user,
                    at |-> now, status |-> out.status, ret |-> out.ret]
        /\ RT_Frame

\* DELETE /tickets/{ticket_id}
DeleteTicket(ticket_id, current_user) ==
    LET out == RT_delete_ticket(rt_tickets, ticket_id, current_user)
    IN  /\ rt_tickets' = out.rows
        /\ call' = [op |-> "tickets.delete_ticket", ticket_id |-> ticket_id,
                    current_user |-> current_user, status |-> out.status]
        /\ RT_Frame

\* request bodies of PUT /tickets/{ticket_id}; a request names a ticket of
\* the table or one that is missing
TicketUpdates ==
    {[title |-> Unset, status |-> st] :
        st \in {None, Str("open"), Str("in_progress"), Str("resolved")}}
    \cup {[title |-> Str(Chars("printer")), status |-> Unset]}

\* request bodies of POST /tickets/ that name priority and category
RoutesPlainCreates ==
    {td \in RoutesTicketCreates : td.priority # None /\ td.category # None}


NextRoutes ==
    \/ \E td \in RoutesPlainCreates : td.title = Chars("hello") /\ RoutesCreateTicket(td, 1, TRUE)
    \/ \E id \in 1..(MaxTickets + 1), tu \in TicketUpdates, u \in RT_Users :
          tu.title = Unset /\ u.role = "SUPPORT_AGENT" /\ UpdateTicket(id, tu, u)
    \/ Tick

\* tickets created and updated through the routes as the hours pass
SpecRoutes == Init /\ [][NextRoutes]_vars

NextAccess ==
    \/ \E td \in RoutesPlainCreates, u \in RT_Users :
          u.role = "CUSTOMER" /\ RoutesCreateTicket(td, u.id, TRUE)
    \/ \E st \in {None, Str("open")}, u \in RT_Users : GetTickets(st, u)
    \/ \E id \in 1..(MaxTickets + 1), u \in RT_Users : GetTicket(id, u)
    \/ \E id \in 1..(MaxTickets + 1), tu \in TicketUpdates, u \in RT_Users :
          tu.status \in {Unset, Str("resolved")} /\ UpdateTicket(id, tu, u)
    \/ \E id \in 1..(MaxTickets + 1), u \in RT_Users : DeleteTicket(id, u)

\* requests of customers, an agent and an administrator to the ticket routes
SpecAccess == Init /\ [][NextAccess]_vars

\* C29: a RESOLVED ticket has resolved_at set, and once set resolved_at is
\* not changed by any later update, re-opening and resolving again included
C29_ResolvedAtKept ==
    /\ [](\A i \in 1..Len(rt_tickets) :
            rt_tickets[i].status = "resolved" => rt_tickets[i].resolved_at # None)
    /\ [][\A i \in 1..Len(rt_tickets) :
            rt_tickets[i].resolved_at # None =>
                rt_tickets'[i].resolved_at = rt_tickets[i].resolved_at]_vars

\* a ticket resolved at an earlier hour has been re-opened and resolved again
C29_Witness ==
    /\ call.op = "tickets.update_ticket"
    /\ call.status = 200
    /\ call.ticket_update.status = Str("resolved")
    /\ call.ret.status = "resolved"
    /\ call.ret.resolved_at # None
    /\ call.ret.resolved_at.v < call.at
    /\ \E i \in 1..Len(rt_tickets) : rt_tickets[i] = call.ret

\* C30: a CUSTOMER reads and updates only tickets they created: get_tickets
\* and get_ticket return only their own rows, a get_ticket or update_ticket
\* on another user's ticket answers 403, a delete_ticket by anyone but an
\* ADMIN answers 403, and a 403 leaves the table as it was
C30_CustomerIsolation ==
    [][call' # call =>
        LET u == call'.current_user
        IN  /\ (call'.op = "tickets.get_tickets" /\ u.role = "CUSTOMER") =>
                  \A t \in call'.rows : t.created_by = u.id
            /\ (call'.op \in {"tickets.get_ticket", "tickets.update_ticket"}
                  /\ u.role = "CUSTOMER" /\ RT_first(rt_tickets, call'.ticket_id) # 0) =>
                  IF rt_tickets[RT_first(rt_tickets, call'.ticket_id)].created_by = u.id
                  THEN call'.status # 403
                  ELSE call'.status = 403 /\ call'.ret = None
            /\ (call'.op = "tickets.delete_ticket" /\ u.role # "ADMIN") =>
                  call'.status = 403
            /\ (call'.op \in {"tickets.get_ticket", "tickets.update_ticket",
                              "tickets.delete_ticket"} /\ call'.status = 403) =>
                  rt_tickets' = rt_tickets
            /\ (call'.op \in {"tickets.update_ticket", "tickets.delete_ticket"}
                  /\ u.role = "CUSTOMER") =>
                  /\ Len(rt_tickets') = Len(rt_tickets)
                  /\ \A i \in 1..Len(rt_tickets) :
                        rt_tickets'[i] # rt_tickets[i] => rt_tickets[i].created_by = u.id
    ]_vars

\* a customer's update of another customer's ticket has been answered 403
C30_Witness ==
    /\ call.op = "tickets.update_ticket"
    /\ call.current_user.role = "CUSTOMER"
    /\ call.status = 403
    /\ call.ticket_update.status = Str("resolved")
    /\ \E i \in 1..Len(rt_tickets) :
          /\ rt_tickets[i].id = call.ticket_id
          /\ rt_tickets[i].created_by # call.current_user.id
          /\ rt_tickets[i].status = "open"

====
